---------------------------- MODULE Spec2Model ----------------------------
(***************************************************************************)
(* Metrics Calculation Engine of the artifact registry: the eight          *)
(* sub-scorers (src/src/metrics/*_metric.py), the aggregator               *)
(* MetricsCalculator and the threshold gate check_ingest_threshold         *)
(* (src/src/metrics/calculator.py), and the ingest workflow that calls     *)
(* them (src/api/routes/artifacts.py, src/backend/app.py).                 *)
(*                                                                         *)
(* Numbers.  Every score is an integer count of millionths: 1.0 is One,    *)
(* 0.37 is 370000.  The sub-scorers combine two-decimal weights with       *)
(* components that have at most four decimals, so their values are exact   *)
(* in this unit; round(x, 4) yields multiples of 100.  The source computes *)
(* in binary floating point: the model is the exact-arithmetic reading of  *)
(* the same formulas.                                                      *)
(*                                                                         *)
(* Text.  Strings are TLC strings; Len, \o and SubSeq work on them, and    *)
(* the Python string methods the source uses are defined from those.  The  *)
(* module's lexer cannot hold U+0060 in a literal, so BT stands for it.    *)
(***************************************************************************)
EXTENDS Integers, Sequences, FiniteSets, TLC

----------------------------------------------------------------------------
(* Fixed-point scores *)

\* A value given with four decimals (0.12 is D4(1200)), in millionths.
D4(n) == n * 100

\* 1.0
One == D4(10000)

Min(a, b) == IF a <= b THEN a ELSE b
Max(a, b) == IF a >= b THEN a ELSE b

\* n/d rounded to the nearest integer, ties to even (n >= 0, d > 0): Python's
\* round() on a value that is exactly representable.
RoundHalfEven(n, d) ==
  LET q == n \div d
      r == n % d
  IN  IF 2 * r < d THEN q
      ELSE IF 2 * r > d THEN q + 1
      ELSE IF q % 2 = 0 THEN q ELSE q + 1

\* round(n/d, 4) for n/d in millionths: a multiple of 100 millionths.
Round4(n, d) == 100 * RoundHalfEven(n, 100 * d)

----------------------------------------------------------------------------
(* Python string methods *)

\* Stand-in for the backtick character.
BT == "\f"

Ch(s, i) == SubSeq(s, i, i)

UPPER == "ABCDEFGHIJKLMNOPQRSTUVWXYZ"
LOWER == "abcdefghijklmnopqrstuvwxyz"
DIGITS == "0123456789"

InChars(c, chars) == \E i \in 1..Len(chars) : Ch(chars, i) = c

SPACES == " \t\n\r"

IsSpace(c) == InChars(c, SPACES)
IsDigit(c) == InChars(c, DIGITS)
IsLowerAlnum(c) == InChars(c, LOWER) \/ IsDigit(c)
\* \w of the re module on the lower-cased text the source searches.
IsWordChar(c) == IsLowerAlnum(c) \/ InChars(c, UPPER) \/ c = "_"

LowerChar(c) ==
  IF InChars(c, UPPER)
  THEN Ch(LOWER, CHOOSE i \in 1..26 : Ch(UPPER, i) = c)
  ELSE c

\* s[lo..hi] with every character c replaced by (IF c = a THEN b ELSE
\* LowerChar(c)), built by halves so that the recursion stays shallow.
RECURSIVE MapRange(_, _, _, _, _)
MapRange(s, lo, hi, a, b) ==
  IF lo > hi THEN ""
  ELSE IF lo = hi THEN (IF Ch(s, lo) = a THEN b ELSE LowerChar(Ch(s, lo)))
  ELSE LET mid == (lo + hi) \div 2
       IN  MapRange(s, lo, mid, a, b) \o MapRange(s, mid + 1, hi, a, b)

\* str.lower()
Lower(s) == MapRange(s, 1, Len(s), "", "")

\* sub in s
Contains(s, sub) ==
  \E i \in 1..(Len(s) - Len(sub) + 1) : SubSeq(s, i, i + Len(sub) - 1) = sub

\* s[i - 1:].startswith(lit): lit stands in s at (1-based) position i.
At(s, i, lit) ==
  i >= 1 /\ i + Len(lit) - 1 <= Len(s) /\ SubSeq(s, i, i + Len(lit) - 1) = lit

\* s.startswith(p), s.endswith(p)
StartsWith(s, p) == Len(p) <= Len(s) /\ SubSeq(s, 1, Len(p)) = p
EndsWith(s, p) == Len(p) <= Len(s) /\ SubSeq(s, Len(s) - Len(p) + 1, Len(s)) = p

\* Index of the first occurrence of sub in s at or after i; 0 when there is none.
FindFrom(s, sub, i) ==
  LET hits == {j \in i..(Len(s) - Len(sub) + 1) : SubSeq(s, j, j + Len(sub) - 1) = sub}
  IN  IF hits = {} THEN 0 ELSE CHOOSE j \in hits : \A k \in hits : j <= k

RECURSIVE CountFrom(_, _, _)
CountFrom(s, sub, i) ==
  LET j == FindFrom(s, sub, i)
  IN  IF j = 0 THEN 0 ELSE 1 + CountFrom(s, sub, j + Len(sub))

\* s.count(sub): non-overlapping occurrences, left to right.
Count(s, sub) == CountFrom(s, sub, 1)

\* s.strip()
Strip(s) ==
  LET keep == {i \in 1..Len(s) : ~IsSpace(Ch(s, i))}
  IN  IF keep = {} THEN ""
      ELSE SubSeq(s, CHOOSE i \in keep : \A k \in keep : i <= k,
                     CHOOSE i \in keep : \A k \in keep : i >= k)

\* s.replace(a, b) for a one-character a, on an s that is already lower-case
ReplaceChar(s, a, b) == MapRange(s, 1, Len(s), a, b)

\* s.split(sep)[0]
BeforeFirst(s, sep) ==
  LET j == FindFrom(s, sep, 1)
  IN  IF j = 0 THEN s ELSE SubSeq(s, 1, j - 1)

\* s.split(sep, 1)[1], for an s that holds sep
AfterFirst(s, sep) ==
  LET j == FindFrom(s, sep, 1)
  IN  SubSeq(s, j + Len(sep), Len(s))

\* End of the longest run of characters of the class chars that starts at i
\* (i - 1 when s[i] is not of the class).
RECURSIVE RunEnd(_, _, _)
RunEnd(s, i, chars) ==
  IF i <= Len(s) /\ InChars(Ch(s, i), chars) THEN RunEnd(s, i + 1, chars) ELSE i - 1

\* any(kw in s for kw in kws), sum(1 for kw in kws if kw in s)
AnyIn(kws, s) == \E k \in 1..Len(kws) : Contains(s, kws[k])
HowManyIn(kws, s) == Cardinality({k \in 1..Len(kws) : Contains(s, kws[k])})

----------------------------------------------------------------------------
(* Data model: src/src/models/model.py *)

\* An optional value (a dict key that may be missing) is a sequence of length
\* 0 or 1.
None == <<>>
Some(v) == <<v>>

\* A timestamp string: empty, unparseable, or an ISO date, kept as its day
\* number.
NoDate == [iso |-> "empty", day |-> 0]
BadDate == [iso |-> "bad", day |-> 0]
Date(d) == [iso |-> "date", day |-> d]

\* ModelInfo.total_size_bytes: the sum of the dict entries' "size" (0 when the
\* key is missing).  Sizes are counted in KiB throughout, so that 140 GiB and
\* its multiples stay inside TLC's integers.
RECURSIVE SumSizes(_, _)
SumSizes(files, i) ==
  IF i > Len(files) THEN 0
  ELSE (IF files[i].dict THEN files[i].size ELSE 0) + SumSizes(files, i + 1)

total_size_bytes(model_info) == SumSizes(model_info.siblings, 1)

\* MetricResult(name, value, latency_ms, details); details holds the size
\* scorer's "hardware_scores" or nothing the aggregator reads.
MetricResult(name, value, latency_ms, details) ==
  [name |-> name, value |-> value, latency_ms |-> latency_ms, details |-> details]

NoDetails == [hardware_scores |-> None]

\* SizeScore.to_dict()
SizeScore(rp, jn, pc, aws) ==
  [raspberry_pi |-> rp, jetson_nano |-> jn, desktop_pc |-> pc, aws_server |-> aws]

----------------------------------------------------------------------------
(* License sub-scorer: src/src/metrics/license_metric.py *)

\* LICENSE_SCORES in the dict's insertion order, which the partial match walks.
LICENSE_SCORES == <<
  <<"mit", D4(10000)>>, <<"bsd-3-clause", D4(10000)>>, <<"bsd-2-clause", D4(10000)>>,
  <<"bsd", D4(10000)>>, <<"apache-2.0", D4(9000)>>, <<"apache", D4(9000)>>,
  <<"unlicense", D4(10000)>>, <<"cc0-1.0", D4(10000)>>, <<"wtfpl", D4(10000)>>,
  <<"isc", D4(10000)>>,
  <<"cc-by-4.0", D4(8000)>>, <<"cc-by-sa-4.0", D4(7000)>>, <<"openrail", D4(8000)>>,
  <<"openrail++", D4(8000)>>, <<"bigscience-openrail-m", D4(7500)>>,
  <<"creativeml-openrail-m", D4(7500)>>, <<"llama2", D4(7000)>>, <<"llama3", D4(7000)>>,
  <<"gemma", D4(7000)>>,
  <<"lgpl-2.1", D4(6000)>>, <<"lgpl-3.0", D4(6000)>>, <<"lgpl", D4(6000)>>,
  <<"mpl-2.0", D4(6000)>>, <<"gpl-2.0", D4(3000)>>, <<"gpl-3.0", D4(3000)>>,
  <<"gpl", D4(3000)>>, <<"agpl-3.0", D4(2000)>>, <<"agpl", D4(2000)>>,
  <<"cc-by-nc-4.0", D4(4000)>>, <<"cc-by-nc-sa-4.0", D4(3000)>>,
  <<"cc-by-nc-nd-4.0", D4(2000)>>,
  <<"other", D4(3000)>>, <<"unknown", D4(1000)>> >>

\* re.search(r'license[:\s]+([a-z0-9\-\.]+)', text): group 1 of the leftmost
\* match, or None.
LicenseSearch(text) ==
  LET starts == {i \in 1..(Len(text) - 6) :
                   /\ SubSeq(text, i, i + 6) = "license"
                   /\ LET e == RunEnd(text, i + 7, ":" \o SPACES)
                      IN  e >= i + 7 /\ RunEnd(text, e + 1, LOWER \o DIGITS \o "-.") > e}
  IN  IF starts = {} THEN None
      ELSE LET i == CHOOSE j \in starts : \A k \in starts : j <= k
               e == RunEnd(text, i + 7, ":" \o SPACES)
           IN  Some(SubSeq(text, e + 1, RunEnd(text, e + 1, LOWER \o DIGITS \o "-.")))

_extract_license(model_info) ==
  LET api_data == model_info.api_data
      tagged == {k \in 1..Len(model_info.tags) :
                   Contains(Lower(model_info.tags[k]), "license:")}
      found == IF model_info.readme # "" THEN LicenseSearch(Lower(model_info.readme))
               ELSE None
  IN  IF model_info.license # "" THEN model_info.license
      ELSE IF api_data.license # None THEN api_data.license[1]
      ELSE IF api_data.cardData.license # None THEN api_data.cardData.license[1]
      ELSE IF tagged # {}
        THEN Strip(AfterFirst(model_info.tags[CHOOSE k \in tagged : \A j \in tagged : k <= j],
                              ":"))
      ELSE IF found # None THEN found[1]
      ELSE "unknown"

_normalize_license(license_str) ==
  IF license_str = "" THEN "unknown"
  ELSE LET normalized == ReplaceChar(ReplaceChar(Strip(Lower(license_str)), " ", "-"),
                                     "_", "-")
       IN  IF Contains(normalized, "apache") /\ Contains(normalized, "2") THEN "apache-2.0"
           ELSE IF normalized \in {"mit", "mit-license"} THEN "mit"
           ELSE IF Contains(normalized, "bsd")
             THEN (IF Contains(normalized, "3") THEN "bsd-3-clause"
                   ELSE IF Contains(normalized, "2") THEN "bsd-2-clause"
                   ELSE "bsd")
           ELSE IF Contains(normalized, "gpl")
             THEN (IF Contains(normalized, "lgpl")
                     THEN (IF Contains(normalized, "3") THEN "lgpl-3.0" ELSE "lgpl-2.1")
                   ELSE IF Contains(normalized, "agpl") THEN "agpl-3.0"
                   ELSE IF Contains(normalized, "3") THEN "gpl-3.0"
                   ELSE "gpl-2.0")
           ELSE normalized

_score_license(normalized_license) ==
  LET exact == {k \in 1..Len(LICENSE_SCORES) : LICENSE_SCORES[k][1] = normalized_license}
      partial == {k \in 1..Len(LICENSE_SCORES) :
                    \/ Contains(normalized_license, LICENSE_SCORES[k][1])
                    \/ Contains(LICENSE_SCORES[k][1], normalized_license)}
  IN  IF exact # {} THEN LICENSE_SCORES[CHOOSE k \in exact : TRUE][2]
      ELSE IF partial # {}
        THEN LICENSE_SCORES[CHOOSE k \in partial : \A j \in partial : k <= j][2]
      ELSE D4(3000)

\* LicenseMetric.calculate
LicenseCalculate(model_info, latency_ms) ==
  MetricResult("license",
               _score_license(_normalize_license(_extract_license(model_info))),
               latency_ms, NoDetails)

\* The three sets check_license_compatibility tests membership in.
permissive == {"mit", "bsd", "bsd-2-clause", "bsd-3-clause", "apache-2.0", "unlicense",
               "cc0-1.0"}
gpl_family == {"gpl-2.0", "gpl-3.0", "lgpl-2.1", "lgpl-3.0"}
openrail == {"openrail", "openrail++", "bigscience-openrail-m", "creativeml-openrail-m"}

\* A faulty variant: only identical licenses are compatible.
SameLicenseOnly(license1, license2) ==
  _normalize_license(license1) = _normalize_license(license2)

\* A faulty variant: only the first license is looked up among the
\* permissive ones.
FirstPermissive(license1, license2) ==
  \/ _normalize_license(license1) \in permissive
  \/ _normalize_license(license1) = _normalize_license(license2)

check_license_compatibility(license1, license2) ==
  LET l1 == _normalize_license(license1)
      l2 == _normalize_license(license2)
  IN  IF l1 \in permissive \/ l2 \in permissive THEN TRUE
      ELSE IF l1 = l2 THEN TRUE
      ELSE IF l1 \in gpl_family /\ l2 \in gpl_family THEN TRUE
      ELSE IF l1 \in openrail /\ l2 \in openrail THEN TRUE
      ELSE _score_license(l1) >= D4(7000) /\ _score_license(l2) >= D4(7000)

----------------------------------------------------------------------------
(* Size sub-scorer: src/src/metrics/size_metric.py *)

MiB == 1024
GiB == 1024 * 1024

\* HARDWARE_LIMITS, in KiB.
HARDWARE_LIMITS ==
  [raspberry_pi |-> 1 * GiB, jetson_nano |-> 4 * GiB,
   desktop_pc |-> 16 * GiB, aws_server |-> 64 * GiB]

\* SIZE_PATTERNS in the dict's insertion order, in KiB.
SIZE_PATTERNS == <<
  <<"7b", 13 * GiB>>, <<"13b", 26 * GiB>>, <<"30b", 60 * GiB>>, <<"65b", 130 * GiB>>,
  <<"70b", 140 * GiB>>, <<"tiny", 100 * MiB>>, <<"small", 500 * MiB>>,
  <<"base", 500 * MiB>>, <<"medium", 1536 * MiB>>, <<"large", 3 * GiB>>,
  <<"xl", 6 * GiB>>, <<"xxl", 12 * GiB>> >>

\* A faulty variant: the name is looked up before the file list is summed.
NameBeforeManifest(model_info) ==
  LET name_lower == Lower(model_info.name)
      matched == {k \in 1..Len(SIZE_PATTERNS) : Contains(name_lower, SIZE_PATTERNS[k][1])}
  IN  IF matched # {}
        THEN SIZE_PATTERNS[CHOOSE k \in matched : \A j \in matched : k <= j][2]
      ELSE IF total_size_bytes(model_info) > 0 THEN total_size_bytes(model_info)
      ELSE 2 * GiB

\* Steps 1 to 4 of _estimate_size, which do not read downloads: the size they
\* return, or None when the function goes on to the downloads.
SizeBeforeDownloads(model_info) ==
  LET total == SumSizes(model_info.api_data.siblings, 1)
      name_lower == Lower(model_info.name)
      matched == {k \in 1..Len(SIZE_PATTERNS) : Contains(name_lower, SIZE_PATTERNS[k][1])}
      library == Lower(model_info.library_name)
  IN  IF total_size_bytes(model_info) > 0 THEN Some(total_size_bytes(model_info))
      ELSE IF model_info.api_data.siblings # <<>> /\ total > 0 THEN Some(total)
      ELSE IF matched # {}
        THEN Some(SIZE_PATTERNS[CHOOSE k \in matched : \A j \in matched : k <= j][2])
      ELSE IF \/ Contains(library, "sentence-transformer")
              \/ Contains(name_lower, "sentence-transformer") THEN Some(500 * MiB)
      ELSE IF Contains(name_lower, "bert") THEN Some(500 * MiB)
      ELSE IF Contains(name_lower, "gpt2") /\ ~Contains(name_lower, "xl") THEN Some(600 * MiB)
      ELSE IF Contains(name_lower, "whisper")
        THEN (IF Contains(name_lower, "tiny") THEN Some(150 * MiB)
              ELSE IF Contains(name_lower, "small") THEN Some(500 * MiB)
              ELSE IF Contains(name_lower, "medium") THEN Some(1536 * MiB)
              ELSE IF Contains(name_lower, "large") THEN Some(3 * GiB)
              ELSE Some(500 * MiB))
      ELSE None

_estimate_size(model_info) ==
  LET early == SizeBeforeDownloads(model_info)
      downloads == model_info.downloads
  IN  IF early # None THEN early[1]
      ELSE IF downloads > 1000000 THEN 500 * MiB
      ELSE IF downloads > 100000 THEN 1 * GiB
      ELSE IF downloads > 10000 THEN 2 * GiB
      ELSE 2 * GiB

\* A faulty variant: the upper bound of each bracket is left out of it.
ExclusiveBrackets(size_bytes, limit_bytes) ==
  IF size_bytes <= 0 THEN D4(10000)
  ELSE IF 4 * size_bytes < limit_bytes THEN D4(10000)
  ELSE IF 2 * size_bytes < limit_bytes THEN D4(9000)
  ELSE IF 4 * size_bytes < 3 * limit_bytes THEN D4(7000)
  ELSE IF size_bytes < limit_bytes THEN D4(5000)
  ELSE IF 2 * size_bytes < 3 * limit_bytes THEN D4(2000)
  ELSE 0

\* A faulty variant: the scores of the second and the third bracket are
\* exchanged.
UnorderedBrackets(size_bytes, limit_bytes) ==
  IF size_bytes <= 0 THEN One
  ELSE IF 4 * size_bytes <= limit_bytes THEN D4(10000)
  ELSE IF 2 * size_bytes <= limit_bytes THEN D4(7000)
  ELSE IF 4 * size_bytes <= 3 * limit_bytes THEN D4(9000)
  ELSE IF size_bytes <= limit_bytes THEN D4(5000)
  ELSE IF 2 * size_bytes <= 3 * limit_bytes THEN D4(2000)
  ELSE 0

\* ratio = size_bytes / limit_bytes against 0.25, 0.5, 0.75, 1.0, 1.5, each
\* comparison cleared of its denominator.
_calculate_hardware_score(size_bytes, limit_bytes) ==
  IF size_bytes <= 0 THEN One
  ELSE IF 4 * size_bytes <= limit_bytes THEN D4(10000)
  ELSE IF 2 * size_bytes <= limit_bytes THEN D4(9000)
  ELSE IF 4 * size_bytes <= 3 * limit_bytes THEN D4(7000)
  ELSE IF size_bytes <= limit_bytes THEN D4(5000)
  ELSE IF 2 * size_bytes <= 3 * limit_bytes THEN D4(2000)
  ELSE 0

\* A faulty variant: the four hardware scores are added up and not averaged.
SummedScore(size_score) ==
  size_score.raspberry_pi + size_score.jetson_nano
    + size_score.desktop_pc + size_score.aws_server

\* A faulty variant: the best of the four hardware scores.
BestTier(size_score) ==
  Max(Max(size_score.raspberry_pi, size_score.jetson_nano),
      Max(size_score.desktop_pc, size_score.aws_server))

_average_score(size_score) ==
  (size_score.raspberry_pi + size_score.jetson_nano
     + size_score.desktop_pc + size_score.aws_server) \div 4

\* SizeMetric.calculate
SizeCalculate(model_info, latency_ms) ==
  LET size_bytes == _estimate_size(model_info)
      size_score ==
        SizeScore(_calculate_hardware_score(size_bytes, HARDWARE_LIMITS.raspberry_pi),
                  _calculate_hardware_score(size_bytes, HARDWARE_LIMITS.jetson_nano),
                  _calculate_hardware_score(size_bytes, HARDWARE_LIMITS.desktop_pc),
                  _calculate_hardware_score(size_bytes, HARDWARE_LIMITS.aws_server))
  IN  MetricResult("size_score", _average_score(size_score), latency_ms,
                   [hardware_scores |-> Some(size_score)])

----------------------------------------------------------------------------
(* Shared by the weighted-sum sub-scorers *)

\* value * pct / 100: one term of a weighted average whose weights are whole
\* percents.
Pct(value, pct) == (value * pct) \div 100

\* min(n * step, cap)
Capped(n, step, cap) == Min(n * step, cap)

\* model_info.readme.lower() if model_info.readme else ""
ReadmeLower(model_info) == Lower(model_info.readme)

\* sib.get("rfilename", "") if isinstance(sib, dict) else ""
Filename(sib) == IF sib.dict THEN sib.rfilename ELSE ""

\* The file names of api_data.get("siblings", []).
Filenames(model_info) ==
  [k \in 1..Len(model_info.api_data.siblings) |-> Filename(model_info.api_data.siblings[k])]

\* [t.lower() for t in model_info.tags]
TagsLower(model_info) == [k \in 1..Len(model_info.tags) |-> Lower(model_info.tags[k])]

\* any(kw in tag for tag in tags for kw in kws)
AnyTagHas(tags, kws) == \E k \in 1..Len(tags) : AnyIn(kws, tags[k])

----------------------------------------------------------------------------
(* RampUp sub-scorer: src/src/metrics/rampup_metric.py *)

RampUpSections == <<
  <<"usage", "how to use", "getting started", "quick start">>,
  <<"install", "pip install", "requirements", "dependencies">>,
  <<"example", "sample", "demo", BT \o BT \o BT \o "python", BT \o BT \o BT>>,
  <<"description", "overview", "about", "introduction">>,
  <<"performance", "benchmark", "accuracy", "results", "evaluation">> >>

_score_readme(model_info) ==
  LET readme == IF model_info.readme # "" THEN ReadmeLower(model_info)
                ELSE Lower(model_info.api_data.description)
      sections == Cardinality({k \in 1..Len(RampUpSections) : AnyIn(RampUpSections[k], readme)})
      code_blocks == Count(readme, BT \o BT \o BT)
  IN  IF readme = "" THEN D4(3000)
      ELSE Min(D4(3000) + sections * D4(1200)
                 + (IF code_blocks >= 2 THEN D4(1000) ELSE 0), One)

_score_examples(model_info) ==
  LET readme == ReadmeLower(model_info)
      files == Filenames(model_info)
  IN  Min(D4(3000)
            + (IF Contains(readme, BT \o BT \o BT \o "python") \/ Contains(readme, ">>> ")
               THEN D4(3000) ELSE 0)
            + (IF \E k \in 1..Len(files) :
                    AnyIn(<<"example", "demo", "sample", "notebook", ".ipynb">>,
                          Lower(files[k]))
               THEN D4(2000) ELSE 0)
            + (IF model_info.pipeline_tag # "" THEN D4(2000) ELSE 0),
          One)

_score_model_card(model_info) ==
  Min(D4(2000)
        + (IF model_info.pipeline_tag # "" THEN D4(2000) ELSE 0)
        + (IF Len(model_info.tags) >= 3 THEN D4(1500) ELSE 0)
        + (IF model_info.model_index # <<>> THEN D4(2500) ELSE 0)
        + (IF model_info.license # "" /\ model_info.license # "unknown" THEN D4(1000) ELSE 0)
        + (IF model_info.library_name # "" THEN D4(1000) ELSE 0),
      One)

_score_popularity(model_info) ==
  LET downloads == model_info.downloads
      likes == model_info.likes
      download_score == IF downloads >= 1000000 THEN D4(10000)
                        ELSE IF downloads >= 100000 THEN D4(8000)
                        ELSE IF downloads >= 10000 THEN D4(6000)
                        ELSE IF downloads >= 1000 THEN D4(4000)
                        ELSE D4(2000)
      like_score == IF likes >= 1000 THEN D4(10000)
                    ELSE IF likes >= 100 THEN D4(7000)
                    ELSE IF likes >= 10 THEN D4(4000)
                    ELSE D4(2000)
  IN  Pct(download_score, 70) + Pct(like_score, 30)

\* RampUpMetric.calculate
RampUpCalculate(model_info, latency_ms) ==
  MetricResult("ramp_up_time",
               Pct(_score_readme(model_info), 40) + Pct(_score_examples(model_info), 30)
                 + Pct(_score_model_card(model_info), 20)
                 + Pct(_score_popularity(model_info), 10),
               latency_ms, NoDetails)

----------------------------------------------------------------------------
(* BusFactor sub-scorer: src/src/metrics/busfactor_metric.py *)

\* TRUSTED_ORGS in the dict's insertion order.
TRUSTED_ORGS == <<
  <<"google", D4(9500)>>, <<"openai", D4(9500)>>, <<"meta", D4(9000)>>,
  <<"facebook", D4(9000)>>, <<"microsoft", D4(9000)>>, <<"nvidia", D4(9000)>>,
  <<"huggingface", D4(9000)>>, <<"stability-ai", D4(8500)>>, <<"stabilityai", D4(8500)>>,
  <<"mistral", D4(8500)>>, <<"mistralai", D4(8500)>>, <<"anthropic", D4(9000)>>,
  <<"bigscience", D4(8500)>>, <<"eleutherai", D4(8000)>>, <<"allenai", D4(8500)>>,
  <<"amazon", D4(9000)>>, <<"salesforce", D4(8500)>>, <<"deepmind", D4(9500)>>,
  <<"databricks", D4(8500)>>, <<"cohere", D4(8500)>> >>

\* The first two lookups of _score_organization, by the name alone: the
\* score they return, or None when the function goes on to the tags.
OrgByName(model_info) ==
  LET name == Lower(model_info.name)
      orgs == 1..Len(TRUSTED_ORGS)
      direct == {k \in orgs : \/ StartsWith(name, TRUSTED_ORGS[k][1] \o "/")
                              \/ Contains(name, "/" \o TRUSTED_ORGS[k][1] \o "/")}
      owner == {k \in orgs : Contains(name, "/") /\ TRUSTED_ORGS[k][1] = BeforeFirst(name, "/")}
  IN  IF direct # {} THEN Some(TRUSTED_ORGS[CHOOSE k \in direct : \A j \in direct : k <= j][2])
      ELSE IF owner # {} THEN Some(TRUSTED_ORGS[CHOOSE k \in owner : TRUE][2])
      ELSE None

_score_organization(model_info) ==
  LET orgs == 1..Len(TRUSTED_ORGS)
      tags == TagsLower(model_info)
      hinted == {t \in 1..Len(tags) : \E k \in orgs : Contains(tags[t], TRUSTED_ORGS[k][1])}
  IN  IF OrgByName(model_info) # None THEN OrgByName(model_info)[1]
      ELSE IF hinted # {}
        THEN LET t == CHOOSE i \in hinted : \A j \in hinted : i <= j
                 k == CHOOSE i \in orgs :
                        /\ Contains(tags[t], TRUSTED_ORGS[i][1])
                        /\ \A j \in orgs : Contains(tags[t], TRUSTED_ORGS[j][1]) => i <= j
             IN  Pct(TRUSTED_ORGS[k][2], 90)
      ELSE D4(5000)

\* now is datetime.now(), in days: the clock the scorer reads.
_score_activity(model_info, now) ==
  LET last_modified == IF model_info.last_modified # NoDate THEN model_info.last_modified
                       ELSE model_info.api_data.lastModified
      days_since == now - last_modified.day
  IN  IF last_modified = NoDate THEN D4(4000)
      ELSE IF last_modified.iso = "bad" THEN D4(4000)
      ELSE IF days_since <= 7 THEN D4(10000)
      ELSE IF days_since <= 30 THEN D4(9000)
      ELSE IF days_since <= 90 THEN D4(8000)
      ELSE IF days_since <= 180 THEN D4(6000)
      ELSE IF days_since <= 365 THEN D4(4000)
      ELSE D4(3000)

_score_community(model_info) ==
  LET downloads == model_info.downloads
      likes == model_info.likes
  IN  IF downloads >= 1000000 /\ likes >= 1000 THEN D4(10000)
      ELSE IF downloads >= 100000 /\ likes >= 100 THEN D4(9000)
      ELSE IF downloads >= 10000 /\ likes >= 50 THEN D4(8000)
      ELSE IF downloads >= 1000 /\ likes >= 10 THEN D4(6000)
      ELSE IF downloads >= 100 THEN D4(4000)
      ELSE D4(3000)

\* BusFactorMetric.calculate
BusFactorCalculate(model_info, now, latency_ms) ==
  MetricResult("bus_factor",
               Pct(_score_organization(model_info), 30)
                 + Pct(_score_activity(model_info, now), 40)
                 + Pct(_score_community(model_info), 30),
               latency_ms, NoDetails)

----------------------------------------------------------------------------
(* Performance sub-scorer: src/src/metrics/performance_metric.py *)

BENCHMARK_KEYWORDS == <<
  "accuracy", "f1", "precision", "recall", "bleu", "rouge",
  "perplexity", "wer", "cer", "map", "iou", "auc", "roc",
  "benchmark", "evaluation", "performance", "results", "sota",
  "state-of-the-art", "leaderboard", "score", "metric" >>

KNOWN_BENCHMARKS == <<
  "squad", "glue", "superglue", "mmlu", "hellaswag", "arc",
  "winogrande", "truthfulqa", "gsm8k", "humaneval", "mbpp",
  "imagenet", "coco", "voc", "cityscapes", "librispeech",
  "common_voice", "wmt", "flores", "mteb" >>

\* The entries' results, counted: len(results) of each dict entry whose
\* "results" is a list.
RECURSIVE TotalResults(_, _)
TotalResults(model_index, i) ==
  IF i > Len(model_index) THEN 0
  ELSE (IF model_index[i].dict THEN model_index[i].results ELSE 0)
         + TotalResults(model_index, i + 1)

_score_model_index(model_info) ==
  LET model_index == IF model_info.model_index # <<>> THEN model_info.model_index
                     ELSE model_info.api_data.model_index
      total_results == TotalResults(model_index, 1)
  IN  IF model_index = <<>> THEN D4(3000)
      ELSE Min(D4(6000) + (IF total_results >= 5 THEN D4(4000)
                           ELSE IF total_results >= 3 THEN D4(3000)
                           ELSE IF total_results >= 1 THEN D4(1000)
                           ELSE 0),
               One)

\* End of the match of r'\b\d+\.?\d*\s*%|\b0\.\d+\b' that starts at i, or 0.
NumericMatchEnd(s, i) ==
  LET boundary == i = 1 \/ ~IsWordChar(Ch(s, i - 1))
      d1 == RunEnd(s, i, DIGITS)
      dot == IF d1 < Len(s) /\ Ch(s, d1 + 1) = "." THEN d1 + 1 ELSE d1
      d2 == RunEnd(s, dot + 1, DIGITS)
      sp == RunEnd(s, d2 + 1, SPACES)
      frac == RunEnd(s, i + 2, DIGITS)
  IN  IF ~(boundary /\ d1 >= i) THEN 0
      ELSE IF sp < Len(s) /\ Ch(s, sp + 1) = "%" THEN sp + 1
      ELSE IF /\ Ch(s, i) = "0" /\ i < Len(s) /\ Ch(s, i + 1) = "."
              /\ frac >= i + 2
              /\ (frac = Len(s) \/ ~IsWordChar(Ch(s, frac + 1))) THEN frac
      ELSE 0

\* len(re.findall(numeric_pattern, s)), scanning from i.
RECURSIVE NumericMatches(_, _)
NumericMatches(s, i) ==
  LET starts == {j \in i..Len(s) : NumericMatchEnd(s, j) # 0}
  IN  IF starts = {} THEN 0
      ELSE 1 + NumericMatches(s, NumericMatchEnd(s, CHOOSE j \in starts :
                                                      \A k \in starts : j <= k) + 1)

_score_readme_benchmarks(model_info) ==
  LET readme == ReadmeLower(model_info)
  IN  IF readme = "" THEN D4(3000)
      ELSE Min(D4(3000)
                 + Capped(HowManyIn(BENCHMARK_KEYWORDS, readme), D4(500), D4(3000))
                 + Capped(HowManyIn(KNOWN_BENCHMARKS, readme), D4(1000), D4(3000))
                 + (IF NumericMatches(readme, 1) >= 5 THEN D4(1000) ELSE 0),
               One)

_score_tags(model_info) ==
  LET tags == TagsLower(model_info)
      task_tags == {"text-classification", "question-answering", "translation",
                    "summarization", "text-generation", "image-classification"}
  IN  Min(D4(3000)
            + (IF AnyTagHas(tags, <<"evaluation", "benchmark", "leaderboard", "sota">>)
               THEN D4(3000) ELSE 0)
            + (IF AnyTagHas(tags, <<"dataset:", "trained_on:", "finetuned:">>)
               THEN D4(2000) ELSE 0)
            + (IF \E k \in 1..Len(tags) : tags[k] \in task_tags THEN D4(2000) ELSE 0),
          One)

\* PerformanceMetric.calculate
PerformanceCalculate(model_info, latency_ms) ==
  MetricResult("performance_claims",
               Pct(_score_model_index(model_info), 50)
                 + Pct(_score_readme_benchmarks(model_info), 35)
                 + Pct(_score_tags(model_info), 15),
               latency_ms, NoDetails)

----------------------------------------------------------------------------
(* DatasetAndCode sub-scorer: src/src/metrics/dataset_code_metric.py *)

\* The character class [a-z0-9_\-] of the readme patterns.
SLUG == LOWER \o DIGITS \o "_-"

\* \s+on\s+([a-z0-9_\-]+) matches text from position p.
OnClauseAt(text, p) ==
  LET e1 == RunEnd(text, p, SPACES)
      e2 == RunEnd(text, e1 + 3, SPACES)
  IN  /\ e1 >= p
      /\ At(text, e1 + 1, "on")
      /\ e2 >= e1 + 3
      /\ RunEnd(text, e2 + 1, SLUG) > e2

\* re.search(r'trained\s+on\s+([a-z0-9_\-]+)', text)
TrainedOnSearch(text) ==
  \E i \in 1..Len(text) : At(text, i, "trained") /\ OnClauseAt(text, i + 7)

\* re.search(r'fine.?tuned\s+on\s+([a-z0-9_\-]+)', text)
FineTunedOnSearch(text) ==
  \E i \in 1..Len(text) :
    /\ At(text, i, "fine")
    /\ \/ At(text, i + 4, "tuned") /\ OnClauseAt(text, i + 9)
       \/ /\ i + 4 <= Len(text) /\ Ch(text, i + 4) # "\n"
          /\ At(text, i + 5, "tuned") /\ OnClauseAt(text, i + 10)

\* re.search(r'dataset[:\s]+([a-z0-9_\-]+)', text)
DatasetSearch(text) ==
  \E i \in 1..Len(text) :
    /\ At(text, i, "dataset")
    /\ LET e == RunEnd(text, i + 7, ":" \o SPACES)
       IN  e >= i + 7 /\ RunEnd(text, e + 1, SLUG) > e

\* End of the match of r'github\.com/[a-z0-9_\-]+/[a-z0-9_\-]+' (IGNORECASE, on
\* lower-cased text) that starts at i, or 0.  The first run is greedy; both
\* classes exclude "/", so no shorter run lets the pattern match.
GithubMatchEnd(text, i) ==
  LET e1 == RunEnd(text, i + 11, SLUG)
      e2 == RunEnd(text, e1 + 2, SLUG)
  IN  IF /\ At(text, i, "github.com/") /\ e1 >= i + 11
         /\ At(text, e1 + 1, "/") /\ e2 >= e1 + 2
      THEN e2 ELSE 0

\* len(re.findall(github_pattern, text)), scanning from i.
RECURSIVE GithubLinks(_, _)
GithubLinks(text, i) ==
  LET starts == {j \in i..Len(text) : GithubMatchEnd(text, j) # 0}
  IN  IF starts = {} THEN 0
      ELSE 1 + GithubLinks(text, GithubMatchEnd(text, CHOOSE j \in starts :
                                                     \A k \in starts : j <= k) + 1)

_score_datasets(model_info) ==
  LET datasets == model_info.api_data.cardData.datasets
      tagged == Cardinality({k \in 1..Len(model_info.tags) :
                               StartsWith(model_info.tags[k], "dataset:")})
      readme == ReadmeLower(model_info)
      patterns == (IF TrainedOnSearch(readme) THEN 1 ELSE 0)
                    + (IF FineTunedOnSearch(readme) THEN 1 ELSE 0)
                    + (IF DatasetSearch(readme) THEN 1 ELSE 0)
                    + (IF Contains(readme, "huggingface.co/datasets/") THEN 1 ELSE 0)
  IN  Min(D4(3000)
            + (IF datasets # <<>> THEN Capped(Len(datasets), D4(1500), D4(4000)) ELSE 0)
            + tagged * D4(1500)
            + patterns * D4(1000),
          One)

_score_code(model_info) ==
  LET readme == ReadmeLower(model_info)
      github_links == GithubLinks(readme, 1)
      files == Filenames(model_info)
      code_files == Cardinality({k \in 1..Len(files) :
                                   \E ext \in {".py", ".ipynb", ".sh", ".yaml", ".yml", ".json"} :
                                     EndsWith(files[k], ext)})
  IN  Min(D4(3000)
            + (IF github_links > 0 THEN Capped(github_links, D4(2000), D4(4000)) ELSE 0)
            + (IF code_files >= 3 THEN D4(3000)
               ELSE IF code_files >= 1 THEN D4(1500) ELSE 0),
          One)

_score_training_info(model_info) ==
  LET readme == ReadmeLower(model_info)
      training_keywords == <<
        "training", "fine-tuning", "fine tuning", "hyperparameter",
        "learning rate", "batch size", "epochs", "optimizer",
        "training script", "training code", "reproduce" >>
      files == Filenames(model_info)
      configs == Cardinality({k \in 1..Len(files) :
                                files[k] \in {"config.json", "training_args.bin",
                                              "trainer_state.json"}})
  IN  Min(D4(3000) + Capped(HowManyIn(training_keywords, readme), D4(1000), D4(5000))
            + configs * D4(1000),
          One)

\* DatasetCodeMetric.calculate
DatasetCodeCalculate(model_info, latency_ms) ==
  MetricResult("dataset_and_code_score",
               Pct(_score_datasets(model_info), 40) + Pct(_score_code(model_info), 40)
                 + Pct(_score_training_info(model_info), 20),
               latency_ms, NoDetails)

----------------------------------------------------------------------------
(* DatasetQuality sub-scorer: src/src/metrics/dataset_quality_metric.py *)

QUALITY_DATASETS == <<
  <<"wikipedia", D4(9000)>>, <<"bookcorpus", D4(8000)>>, <<"c4", D4(8500)>>,
  <<"openwebtext", D4(8000)>>, <<"pile", D4(8500)>>, <<"redpajama", D4(8500)>>,
  <<"squad", D4(9000)>>, <<"glue", D4(9000)>>, <<"superglue", D4(9000)>>,
  <<"imagenet", D4(9500)>>, <<"coco", D4(9000)>>, <<"laion", D4(7500)>>,
  <<"common_crawl", D4(7000)>>, <<"librispeech", D4(9000)>>, <<"common_voice", D4(8500)>> >>

\* " ".join(strs), from the i-th on
RECURSIVE JoinFrom(_, _)
JoinFrom(strs, i) ==
  IF i > Len(strs) THEN ""
  ELSE IF i = Len(strs) THEN strs[i]
  ELSE strs[i] \o " " \o JoinFrom(strs, i + 1)

RECURSIVE MaxQuality(_, _, _)
MaxQuality(search_text, k, best) ==
  IF k > Len(QUALITY_DATASETS) THEN best
  ELSE MaxQuality(search_text, k + 1,
                  IF Contains(search_text, QUALITY_DATASETS[k][1])
                  THEN Max(best, QUALITY_DATASETS[k][2]) ELSE best)

_score_known_datasets(model_info) ==
  LET datasets == model_info.api_data.cardData.datasets
      search_text ==
        ReadmeLower(model_info) \o " " \o JoinFrom(TagsLower(model_info), 1)
          \o (IF datasets # <<>>
              THEN " " \o JoinFrom([k \in 1..Len(datasets) |-> Lower(datasets[k])], 1)
              ELSE "")
  IN  MaxQuality(search_text, 1, D4(4000))

\* re.search(r'\b\d+[kmbt]?\s*(samples|examples|instances|records)', text)
StatisticsSearch(text) ==
  \E i \in 1..Len(text) :
    /\ IsDigit(Ch(text, i))
    /\ i = 1 \/ ~IsWordChar(Ch(text, i - 1))
    /\ \E d \in i..RunEnd(text, i, DIGITS) :
         \E u \in {d} \cup {j \in {d + 1} : j <= Len(text) /\ InChars(Ch(text, j), "kmbt")} :
           \E w \in {"samples", "examples", "instances", "records"} :
             At(text, RunEnd(text, u + 1, SPACES) + 1, w)

_score_documentation(model_info) ==
  LET readme == ReadmeLower(model_info)
      doc_keywords == <<
        "data collection", "data source", "data preprocessing",
        "data cleaning", "data filtering", "dataset size",
        "training data", "data quality", "data curation" >>
  IN  Min(D4(3000) + Capped(HowManyIn(doc_keywords, readme), D4(1000), D4(5000))
            + (IF StatisticsSearch(readme) THEN D4(2000) ELSE 0),
          One)

_score_curation(model_info) ==
  LET readme == ReadmeLower(model_info)
      curation_keywords == <<
        "curated", "filtered", "cleaned", "quality control",
        "human review", "annotation", "labeled", "verified" >>
  IN  Min(D4(4000) + Capped(HowManyIn(curation_keywords, readme), D4(1500), D4(4000))
            + (IF AnyIn(<<"bias", "fairness", "ethics", "limitations">>, readme)
               THEN D4(2000) ELSE 0),
          One)

\* DatasetQualityMetric.calculate
DatasetQualityCalculate(model_info, latency_ms) ==
  MetricResult("dataset_quality",
               Pct(_score_known_datasets(model_info), 50)
                 + Pct(_score_documentation(model_info), 30)
                 + Pct(_score_curation(model_info), 20),
               latency_ms, NoDetails)

----------------------------------------------------------------------------
(* CodeQuality sub-scorer: src/src/metrics/code_quality_metric.py *)

RECURSIVE GoodFiles(_, _)
GoodFiles(files, i) ==
  IF i > Len(files) THEN 0
  ELSE (IF files[i] \in {"config.json", "tokenizer.json", "model.safetensors",
                         "pytorch_model.bin"} THEN D4(1000)
        ELSE IF files[i] \in {"tokenizer_config.json", "special_tokens_map.json"}
          THEN D4(500)
        ELSE 0) + GoodFiles(files, i + 1)

_score_code_structure(model_info) ==
  LET files == Filenames(model_info)
      py_files == Cardinality({k \in 1..Len(files) : EndsWith(files[k], ".py")})
  IN  Min(D4(4000) + GoodFiles(files, 1) + (IF py_files >= 1 THEN D4(1000) ELSE 0), One)

_score_code_documentation(model_info) ==
  LET readme == model_info.readme
      lower == Lower(readme)
  IN  Min(D4(3000)
            + (IF Contains(lower, BT \o BT \o BT \o "python") THEN D4(2000) ELSE 0)
            + (IF Contains(lower, "parameters") \/ Contains(lower, "arguments")
               THEN D4(1500) ELSE 0)
            + (IF Contains(lower, "type")
                  /\ (Contains(lower, "hint") \/ Contains(lower, "annotation"))
               THEN D4(1500) ELSE 0)
            + (IF Len(readme) > 5000 THEN D4(2000)
               ELSE IF Len(readme) > 2000 THEN D4(1000) ELSE 0),
          One)

_score_testing(model_info) ==
  LET files == Filenames(model_info)
      readme == ReadmeLower(model_info)
      test_files == Cardinality({k \in 1..Len(files) :
                                   \/ Contains(Lower(files[k]), "test")
                                   \/ StartsWith(files[k], "test_")})
  IN  Min(D4(3000)
            + (IF test_files >= 1 THEN D4(3000) ELSE 0)
            + (IF AnyIn(<<"test", "pytest", "unittest">>, readme) THEN D4(2000) ELSE 0)
            + (IF AnyIn(<<"github actions", "ci/cd", "continuous integration", "travis",
                          "circleci">>, readme)
               THEN D4(2000) ELSE 0),
          One)

\* CodeQualityMetric.calculate
CodeQualityCalculate(model_info, latency_ms) ==
  MetricResult("code_quality",
               Pct(_score_code_structure(model_info), 40)
                 + Pct(_score_code_documentation(model_info), 35)
                 + Pct(_score_testing(model_info), 25),
               latency_ms, NoDetails)

----------------------------------------------------------------------------
(* Aggregator: src/src/metrics/calculator.py *)

\* The keys of metric_funcs, in submission order.
MetricNames == <<"license", "ramp_up_time", "bus_factor", "performance_claims",
                 "dataset_and_code_score", "dataset_quality", "code_quality", "size_score">>

Metrics == {MetricNames[k] : k \in 1..Len(MetricNames)}

\* Position of a metric in the submission order.
Index(metric_name) == CHOOSE k \in 1..Len(MetricNames) : MetricNames[k] = metric_name

\* MetricsCalculator.WEIGHTS, in percent, in the dict's insertion order.
WEIGHTS == <<
  <<"license", 15>>, <<"ramp_up_time", 20>>, <<"bus_factor", 10>>,
  <<"performance_claims", 15>>, <<"dataset_and_code_score", 20>>,
  <<"dataset_quality", 10>>, <<"code_quality", 10>> >>

\* The metric_funcs dict: each lambda stands for what it returns, the
\* sub-scorer's calculate(model_info), which reads the clock now and measures
\* latency_ms.
MetricFuncs(model_info, now, latency_ms) ==
  [license |-> LicenseCalculate(model_info, latency_ms),
   ramp_up_time |-> RampUpCalculate(model_info, latency_ms),
   bus_factor |-> BusFactorCalculate(model_info, now, latency_ms),
   performance_claims |-> PerformanceCalculate(model_info, latency_ms),
   dataset_and_code_score |-> DatasetCodeCalculate(model_info, latency_ms),
   dataset_quality |-> DatasetQualityCalculate(model_info, latency_ms),
   code_quality |-> CodeQualityCalculate(model_info, latency_ms),
   size_score |-> SizeCalculate(model_info, latency_ms)]

\* A faulty variant: the substitute reports 0.
ZeroResult(metric_name) == MetricResult(metric_name, 0, 0, NoDetails)

\* The except branch of the fan-in loop: the substitute for a faulted metric.
DefaultResult(metric_name) == MetricResult(metric_name, D4(5000), 0, NoDetails)

\* results.get(key, MetricResult("", 0.5, 0)).value
ValueOr(results, key) ==
  IF key \in DOMAIN results THEN results[key].value ELSE D4(5000)

RECURSIVE WeightedSum(_, _)
WeightedSum(results, k) ==
  IF k > Len(WEIGHTS) THEN 0
  ELSE (IF WEIGHTS[k][1] \in DOMAIN results
        THEN results[WEIGHTS[k][1]].value * WEIGHTS[k][2] ELSE 0)
         + WeightedSum(results, k + 1)

\* A faulty variant: the weights of the metrics that are missing are counted
\* too.
AllWeights(results, k) == 100

RECURSIVE TotalWeight(_, _)
TotalWeight(results, k) ==
  IF k > Len(WEIGHTS) THEN 0
  ELSE (IF WEIGHTS[k][1] \in DOMAIN results THEN WEIGHTS[k][2] ELSE 0)
         + TotalWeight(results, k + 1)

_calculate_net_score(results) ==
  LET weighted_sum == WeightedSum(results, 1)
      total_weight == TotalWeight(results, 1)
  IN  IF total_weight > 0 THEN Round4(weighted_sum, total_weight) ELSE D4(5000)

\* category_keywords, in the dict's insertion order.
CategoryKeywords == <<
  <<"text-generation", <<"text-generation", "gpt", "llm", "causal-lm">> >>,
  <<"text-classification", <<"text-classification", "sentiment", "classifier">> >>,
  <<"question-answering", <<"question-answering", "qa", "squad">> >>,
  <<"translation", <<"translation", "nmt", "mt">> >>,
  <<"summarization", <<"summarization", "summary">> >>,
  <<"image-classification", <<"image-classification", "vision", "resnet", "vit">> >>,
  <<"object-detection", <<"object-detection", "yolo", "detection">> >>,
  <<"speech-recognition", <<"speech-recognition", "asr", "whisper", "wav2vec">> >>,
  <<"text-to-speech", <<"text-to-speech", "tts">> >>,
  <<"feature-extraction", <<"feature-extraction", "embedding", "sentence-transformer">> >> >>

_determine_category(model_info) ==
  LET tags == TagsLower(model_info)
      hits == {k \in 1..Len(CategoryKeywords) : AnyTagHas(tags, CategoryKeywords[k][2])}
  IN  IF model_info.pipeline_tag # "" THEN model_info.pipeline_tag
      ELSE IF hits # {} THEN CategoryKeywords[CHOOSE k \in hits : \A j \in hits : k <= j][1]
      ELSE "unknown"

_calculate_reproducibility(results) ==
  Round4(ValueOr(results, "dataset_and_code_score") * 4 + ValueOr(results, "code_quality") * 3
           + ValueOr(results, "ramp_up_time") * 3, 10)

\* A faulty variant: the two halves of reviewedness weighted 0.4 and 0.6.
MisweightedReviewedness(results) ==
  Round4(ValueOr(results, "bus_factor") * 4 + ValueOr(results, "performance_claims") * 6, 10)

_calculate_reviewedness(results) ==
  Round4(ValueOr(results, "bus_factor") * 5 + ValueOr(results, "performance_claims") * 5, 10)

_calculate_tree_score(results) ==
  Round4(ValueOr(results, "license") * 6 + ValueOr(results, "code_quality") * 4, 10)

\* A faulty variant: without hardware scores in the details, four zeros.
ZeroTiers(result) ==
  IF result.details.hardware_scores # None THEN result.details.hardware_scores[1]
  ELSE SizeScore(0, 0, 0, 0)

\* result.details.get("hardware_scores", {...: 0.5})
HardwareScoresOr(result) ==
  IF result.details.hardware_scores # None THEN result.details.hardware_scores[1]
  ELSE SizeScore(D4(5000), D4(5000), D4(5000), D4(5000))

\* The keys the output dictionary has for a given set of recorded results.
OutputKeys(results) ==
  {"name", "category", "net_score", "net_score_latency",
   "reproducibility", "reproducibility_latency", "reviewedness", "reviewedness_latency",
   "tree_score", "tree_score_latency"}
    \cup DOMAIN results \cup {m \o "_latency" : m \in DOMAIN results}

\* The output dictionary calculate_all_metrics builds from the recorded
\* results.  Latencies are kept in milliseconds (the source divides by 1000 to
\* report seconds; the derived metrics' fixed 0.001 s is 1).
BuildOutput(model_info, results, total_latency_ms) ==
  [key \in OutputKeys(results) |->
     CASE key = "name" -> model_info.name
       [] key = "category" -> _determine_category(model_info)
       [] key = "net_score" -> _calculate_net_score(results)
       [] key = "net_score_latency" -> total_latency_ms
       [] key = "reproducibility" -> _calculate_reproducibility(results)
       [] key = "reviewedness" -> _calculate_reviewedness(results)
       [] key = "tree_score" -> _calculate_tree_score(results)
       [] key \in {"reproducibility_latency", "reviewedness_latency", "tree_score_latency"} -> 1
       [] key = "size_score" -> HardwareScoresOr(results["size_score"])
       [] key \in DOMAIN results /\ key # "size_score" -> results[key].value
       [] OTHER -> results[SubSeq(key, 1, Len(key) - 8)].latency_ms]

----------------------------------------------------------------------------
(* State *)

VARIABLES
  model_info,   \* the descriptor calculate_all_metrics was called with
  now,          \* datetime.now(), in days since the epoch of the Date values
  latency_ms,   \* what a sub-scorer's calculate() measures for its own run
  metric_funcs, \* per metric name, what its lambda returns when it does not raise
  max_workers,  \* MetricsCalculator.max_workers
  pc,           \* where calculate_all_metrics is: submit, as_completed, aggregate, done
  future,       \* per metric, the state of its future in the executor
  results,      \* the results dict of calculate_all_metrics
  output,       \* the dictionary calculate_all_metrics returned, if it has
  calls,        \* finished calls of calculate_all_metrics, oldest first
  metrics,      \* the dictionary handed to the threshold gate
  threshold,    \* the gate's threshold
  passes,       \* what the gate returned, if it has
  store,        \* the table: (pk, sk) -> item
  response,     \* the last response of ingest_model, if any
  utc,          \* the requests handled so far: the tick of the store's timestamps
  args,         \* the arguments of a function that is called on its own
  ret           \* what that function returned, if it has

vars == <<model_info, now, latency_ms, metric_funcs, max_workers, pc, future, results, output,
          calls, metrics, threshold, passes, store, response, utc, args, ret>>

callVars == <<model_info, now, latency_ms, metric_funcs>>
poolVars == <<max_workers, pc, future, results, output>>
gateVars == <<metrics, threshold, passes>>
storeVars == <<store, response, utc>>
fnVars == <<args, ret>>

----------------------------------------------------------------------------
(* Descriptors *)

\* ModelInfo(name, url, api_data) with the dataclass's defaults; api_data is
\* the empty dict.
ModelInfo(name) ==
  [name |-> name, downloads |-> 0, likes |-> 0, last_modified |-> NoDate, tags |-> <<>>,
   pipeline_tag |-> "", library_name |-> "", model_index |-> <<>>, license |-> "",
   readme |-> "", siblings |-> <<>>,
   api_data |-> [license |-> None, cardData |-> [license |-> None, datasets |-> <<>>],
                 siblings |-> <<>>, description |-> "", lastModified |-> NoDate,
                 model_index |-> <<>>]]

File(rfilename, size) == [dict |-> TRUE, rfilename |-> rfilename, size |-> size]

\* A popular, documented, permissively licensed model of a trusted organisation.
BertInfo ==
  [ModelInfo("google/bert-base-uncased") EXCEPT
     !.downloads = 2000000, !.likes = 5000, !.last_modified = Date(180),
     !.license = "apache-2.0", !.pipeline_tag = "fill-mask", !.library_name = "transformers",
     !.tags = <<"transformers", "benchmark", "dataset:wikipedia">>,
     !.model_index = <<[dict |-> TRUE, results |-> 3]>>,
     !.readme = "## Usage\n" \o BT \o BT \o BT \o "python\nfrom transformers import pipeline\n"
                  \o BT \o BT \o BT \o "\n## Training\nTrained on wikipedia. accuracy: 95% f1 0.91\n"
                  \o "## Evaluation results\nSee github.com/google/bert and the test suite.",
     !.siblings = <<File("config.json", 1), File("model.safetensors", 420 * MiB)>>,
     !.api_data = [license |-> Some("apache-2.0"),
                   cardData |-> [license |-> Some("apache-2.0"), datasets |-> <<"wikipedia", "bookcorpus">>],
                   siblings |-> <<File("config.json", 1), File("README.md", 8), File("tokenizer_config.json", 1),
                                  File("model.safetensors", 420 * MiB)>>,
                   description |-> "", lastModified |-> Date(180), model_index |-> <<>>]]

\* A large model with a restrictive licence, last touched long ago.
LlamaInfo ==
  [ModelInfo("someone/llama-70b") EXCEPT
     !.downloads = 1500, !.likes = 11, !.last_modified = Date(10), !.license = "proprietary",
     !.readme = "License: llama2 \nTraining data curated; human review.",
     !.siblings = <<File("pytorch_model.bin", 130 * GiB)>>]

\* A small model whose licence is named only by a tag.
T5Info ==
  [ModelInfo("t5-small") EXCEPT
     !.downloads = 120000, !.likes = 150, !.last_modified = Date(175),
     !.tags = <<"LICENSE: MIT License", "summarization">>,
     !.readme = ">>> import x\nquick start. examples results 12% 0.5",
     !.siblings = <<File("model.bin", 240 * MiB), [dict |-> FALSE, rfilename |-> "", size |-> 0]>>]

\* A descriptor whose only timestamp does not parse.
WhisperInfo ==
  [ModelInfo("openai/whisper-medium") EXCEPT
     !.last_modified = BadDate, !.license = "  ", !.downloads = 10001, !.likes = 50,
     !.api_data = [license |-> Some("GPL_v3"),
                   cardData |-> [license |-> None, datasets |-> <<"common_voice", "c4">>],
                   siblings |-> <<File("test_x.py", 4), File("demo.ipynb", 16)>>,
                   description |-> "Overview and install", lastModified |-> Date(1),
                   model_index |-> <<[dict |-> TRUE, results |-> 5]>>]]

\* A popular MIT-licensed model with one tag and a three-phrase readme.
ScenarioInfo ==
  [ModelInfo("") EXCEPT
     !.downloads = 2000000, !.likes = 5000, !.license = "mit",
     !.tags = <<"bert-base-uncased">>,
     !.readme = "usage " \o BT \o BT \o BT \o "python accuracy: 95%"]

\* The descriptors calls are made with; ModelInfo("") is the bare dataclass.
Descriptors == {ModelInfo(""), BertInfo, LlamaInfo, T5Info, WhisperInfo, ScenarioInfo}

----------------------------------------------------------------------------
(* calculate_all_metrics, step by step: src/src/metrics/calculator.py *)

\* The machines the service may run on have 1..MaxCpu processors, some of them
\* more than the 8 the pool is capped at.
MaxCpu == 16

\* A sub-scorer measures 0..MaxLatencyMs milliseconds for its own run.
MaxLatencyMs == 1

\* The day the calls of the step-by-step specification are made.
Today == 182

\* A faulty variant: a pool without workers.
NoWorkers(cpu_count) == 0

\* MetricsCalculator.__init__: self.max_workers = min(8, cpu_count())
PoolSize(cpu_count) == Min(8, cpu_count)

Running == {m \in Metrics : future[m] = "running"}

NoRequest ==
  /\ calls = <<>>
  /\ metrics = None
  /\ threshold = 0
  /\ passes = None
  /\ store = <<>>
  /\ response = None
  /\ utc = 0
  /\ args = None
  /\ ret = None

\* The pool is sized at construction; the call starts with results = {} and
\* no future submitted.
InitPool ==
  /\ model_info = BertInfo
  /\ now = Today
  /\ latency_ms = MaxLatencyMs
  /\ metric_funcs = MetricFuncs(model_info, now, latency_ms)
  /\ \E cpu_count \in 1..MaxCpu : max_workers = PoolSize(cpu_count)
  /\ pc = "submit"
  /\ future = [m \in Metrics |-> "new"]
  /\ results = <<>>
  /\ output = None
  /\ NoRequest

\* executor.submit(func): the dict comprehension submits the futures in the
\* order of metric_funcs.
Submit(m) ==
  /\ pc = "submit"
  /\ future[m] = "new"
  /\ \A k \in 1..(Index(m) - 1) : future[MetricNames[k]] # "new"
  /\ future' = [future EXCEPT ![m] = "pending"]
  /\ pc' = IF Index(m) = Len(MetricNames) THEN "as_completed" ELSE "submit"
  /\ UNCHANGED <<callVars, max_workers, fnVars, results, output>>
  /\ UNCHANGED <<calls, gateVars, storeVars>>

\* A faulty variant: a thread for every work item.
StartUnbounded(m) ==
  /\ future[m] = "pending"
  /\ future' = [future EXCEPT ![m] = "running"]
  /\ UNCHANGED <<callVars, max_workers, fnVars, pc, results, output>>
  /\ UNCHANGED <<calls, gateVars, storeVars>>

\* A worker thread takes the oldest queued work item; the executor never has
\* more than max_workers threads.
Start(m) ==
  /\ future[m] = "pending"
  /\ \A k \in 1..(Index(m) - 1) : future[MetricNames[k]] # "pending"
  /\ Cardinality(Running) < max_workers
  /\ future' = [future EXCEPT ![m] = "running"]
  /\ UNCHANGED <<callVars, max_workers, fnVars, pc, results, output>>
  /\ UNCHANGED <<calls, gateVars, storeVars>>

\* The sub-scorer's calculate() ends, by returning or by raising; the future
\* keeps the outcome until future.result() is called.
Finish(m) ==
  /\ future[m] = "running"
  /\ future' = [future EXCEPT ![m] = "finished"]
  /\ UNCHANGED <<callVars, max_workers, fnVars, pc, results, output>>
  /\ UNCHANGED <<calls, gateVars, storeVars>>

\* future.result() under try/except: the sub-scorer's result, or the substitute
\* when it raised.
FutureResult(metric_name, state, funcs) ==
  IF state = "raised" THEN DefaultResult(metric_name) ELSE funcs[metric_name]

\* A faulty variant: the loop is left at the first result.
LeftEarly(recorded) == DOMAIN recorded # {}

\* The for loop over as_completed ends when every future has been yielded.
LoopDone(recorded) == DOMAIN recorded = Metrics

\* A faulty variant: a result is stored under the name of the metric that was
\* submitted at the position it arrives at.
RecordByArrival(recorded, metric_name, result) ==
  LET arrival == MetricNames[Cardinality(DOMAIN recorded) + 1]
  IN  [key \in DOMAIN recorded \cup {arrival} |->
         IF key = arrival THEN result ELSE recorded[key]]

\* results[metric_name] = result
Record(recorded, metric_name, result) ==
  [key \in DOMAIN recorded \cup {metric_name} |->
     IF key = metric_name THEN result ELSE recorded[key]]

\* One iteration of the loop over as_completed: a finished future is yielded
\* once, in any order among the finished ones; future.result() returns or
\* re-raises, and the result or the substitute is recorded under the metric's
\* name.
Collect(m, state) ==
  /\ pc = "as_completed"
  /\ future[m] = "finished"
  /\ future' = [future EXCEPT ![m] = state]
  /\ results' = Record(results, m, FutureResult(m, state, metric_funcs))
  /\ pc' = IF LoopDone(results') THEN "aggregate" ELSE "as_completed"
  /\ UNCHANGED <<callVars, max_workers, fnVars, output>>
  /\ UNCHANGED <<calls, gateVars, storeVars>>

\* What is kept of a finished call: its descriptor, the day it was made, the
\* sub-scorers that raised, and what it returned.
CallRecord(d, t, states, out) ==
  [model_info |-> d, now |-> t, raised |-> {m \in Metrics : states[m] = "raised"}, output |-> out]

\* After the with block: the net score, the output dictionary and the derived
\* metrics.  total_latency_ms is the wall-clock time since start_time.
Aggregate(total_latency_ms) ==
  /\ pc = "aggregate"
  /\ output' = Some(BuildOutput(model_info, results, total_latency_ms))
  /\ calls' = Append(calls, CallRecord(model_info, now, future, output'[1]))
  /\ pc' = "done"
  /\ UNCHANGED <<callVars, max_workers, fnVars, future, results>>
  /\ UNCHANGED <<gateVars, storeVars>>

NextPool ==
  \/ \E m \in Metrics : Submit(m)
  \/ \E m \in Metrics : Start(m)
  \/ \E m \in Metrics : Finish(m)
  \/ \E m \in Metrics, state \in {"returned", "raised"} : Collect(m, state)
  \/ \E total_latency_ms \in latency_ms..(latency_ms + MaxLatencyMs) : Aggregate(total_latency_ms)

SpecPool == InitPool /\ [][NextPool]_vars

\* The scheduler lets every thread that can take a step take one.
FairPool == SpecPool /\ WF_vars(NextPool)

----------------------------------------------------------------------------
(* calculate_all_metrics, call by call *)

\* A machine makes at most MaxCalls calls, over at most MaxElapsedDays days.
MaxCalls == 2
MaxElapsedDays == 2

\* In the call-by-call specifications at most MaxFaults sub-scorers raise in
\* one call, or all of them do.
MaxFaults == 1

FaultSets == {F \in SUBSET Metrics : Cardinality(F) <= MaxFaults \/ F = Metrics}

\* A service that has made no call yet.
InitEval ==
  /\ model_info \in Descriptors
  /\ now = Today
  /\ latency_ms = 0
  /\ metric_funcs = <<>>
  /\ \E cpu_count \in {MaxCpu} : max_workers = PoolSize(cpu_count)
  /\ pc = "idle"
  /\ future = [m \in Metrics |-> "new"]
  /\ results = <<>>
  /\ output = None
  /\ NoRequest

\* The clock advances between calls.
Tick ==
  /\ pc \in {"idle", "done"}
  /\ now < Today + MaxElapsedDays
  /\ now' = now + 1
  /\ UNCHANGED <<model_info, latency_ms, metric_funcs, poolVars, fnVars>>
  /\ UNCHANGED <<calls, gateVars, storeVars>>

\* calculate_all_metrics(model_info) is entered: start_time is taken, results
\* is empty and metric_funcs is built.  The sub-scorers will each measure
\* measured_ms for their own run.
Call(measured_ms) ==
  /\ pc \in {"idle", "done"}
  /\ Len(calls) < MaxCalls
  /\ latency_ms' = measured_ms
  /\ metric_funcs' = MetricFuncs(model_info, now, measured_ms)
  /\ pc' = "submit"
  /\ future' = [m \in Metrics |-> "new"]
  /\ results' = <<>>
  /\ output' = None
  /\ UNCHANGED <<model_info, now, max_workers, fnVars>>
  /\ UNCHANGED <<calls, gateVars, storeVars>>

\* What the loop over as_completed leaves in results when the sub-scorers in
\* faults raise and the others return.
Recorded(faults, funcs) ==
  [m \in Metrics |-> FutureResult(m, IF m \in faults THEN "raised" ELSE "returned", funcs)]

\* The rest of calculate_all_metrics in one step: the fan-out, the loop over
\* as_completed and the aggregation, with the sub-scorers in faults raising.
Complete(faults, total_latency_ms) ==
  /\ pc = "submit"
  /\ \A m \in Metrics : future[m] = "new"
  /\ future' = [m \in Metrics |-> IF m \in faults THEN "raised" ELSE "returned"]
  /\ results' = Recorded(faults, metric_funcs)
  /\ output' = Some(BuildOutput(model_info, results', total_latency_ms))
  /\ calls' = Append(calls, CallRecord(model_info, now, future', output'[1]))
  /\ pc' = "done"
  /\ UNCHANGED <<callVars, max_workers, fnVars>>
  /\ UNCHANGED <<gateVars, storeVars>>

\* Calls with few faults, at different times.
NextEval ==
  \/ Tick
  \/ \E measured_ms \in 0..MaxLatencyMs : Call(measured_ms)
  \/ \E faults \in FaultSets : Complete(faults, latency_ms)

SpecEval == InitEval /\ [][NextEval]_vars

\* One call, with any set of sub-scorers raising.
NextScore ==
  \/ calls = <<>> /\ Tick
  \/ \E measured_ms \in 0..MaxLatencyMs : calls = <<>> /\ Call(measured_ms)
  \/ \E faults \in SUBSET Metrics : Complete(faults, latency_ms)

SpecScore == InitEval /\ [][NextScore]_vars

----------------------------------------------------------------------------
(* The threshold gate: src/src/metrics/calculator.py, src/backend/app.py *)

\* The values a dictionary handed to the gate can hold: a number, float("nan"),
\* None, a string that is not a number, or a dict.
Float(v) == [type |-> "float", v |-> v]
NaN == [type |-> "nan"]
NoneValue == [type |-> "NoneType"]
Str == [type |-> "str"]
Dict(items) == [type |-> "dict", items |-> items]

\* metrics.get(key, default)
Get(dict, key, default) == IF key \in DOMAIN dict THEN dict[key] ELSE default

NON_LATENCY_KEYS == <<
  "net_score", "ramp_up_time", "bus_factor", "performance_claims",
  "license", "dataset_and_code_score", "dataset_quality", "code_quality",
  "reproducibility", "reviewedness", "tree_score" >>

\* float(value) raises TypeError for None and a dict, ValueError for a string
\* that is not a number.
FloatRaises(value) == value.type \in {"NoneType", "str", "dict"}

\* float(value) < threshold, when float(value) does not raise: no comparison
\* with NaN is true.
Below(value, t) == value.type = "float" /\ value.v < t

\* One pass of either loop body of check_ingest_threshold: the value lets the
\* loop go on.
Clears(value, t) == ~FloatRaises(value) /\ ~Below(value, t)

check_ingest_threshold(dict, t) ==
  LET size_score == Get(dict, "size_score", Dict(<<>>))
  IN  /\ \A k \in 1..Len(NON_LATENCY_KEYS) : Clears(Get(dict, NON_LATENCY_KEYS[k], Float(0)), t)
      /\ size_score.type = "dict" =>
           \A hw \in DOMAIN size_score.items : Clears(size_score.items[hw], t)

\* ingest_threshold_pass(scores) of the backend: the threshold is 0.5, and the
\* size loop runs float(v) outside any try, so that a value float() rejects
\* raises out of the function.  The result says which.
ingest_threshold_pass(scores) ==
  LET size == Get(scores, "size_score", Dict(<<>>))
      t == D4(5000)
      keys_clear == \A k \in 1..Len(NON_LATENCY_KEYS) :
                      Clears(Get(scores, NON_LATENCY_KEYS[k], Float(0)), t)
      loops == size.type = "dict" /\ DOMAIN size.items # {}
      first_bad == IF loops
                   THEN {hw \in DOMAIN size.items : FloatRaises(size.items[hw]) \/ Below(size.items[hw], t)}
                   ELSE {}
  IN  IF ~keys_clear THEN {"False"}
      ELSE IF first_bad = {} THEN {"True"}
      ELSE {IF FloatRaises(size.items[hw]) THEN "raises" ELSE "False" : hw \in first_bad}

----------------------------------------------------------------------------
(* The gate, called on its own *)

Tiers == {"raspberry_pi", "jetson_nano", "desktop_pc", "aws_server"}

\* The scores and the thresholds the gate is tried with.
GateValues == {0, D4(4999), D4(5000), D4(9000)}
Thresholds == {0, D4(5000), D4(9000)}

\* A dictionary with the eleven metrics at v and the four tiers at s; the
\* keys the gate does not read are left out.
Scores(v, s) ==
  [key \in {NON_LATENCY_KEYS[k] : k \in 1..Len(NON_LATENCY_KEYS)} \cup {"size_score"} |->
     IF key = "size_score" THEN Dict([hw \in Tiers |-> Float(s)]) ELSE Float(v)]

\* del dict[key]
Without(dict, key) == [k \in DOMAIN dict \ {key} |-> dict[k]]

\* dict[key] = value
With(dict, key, value) == [k \in DOMAIN dict \cup {key} |-> IF k = key THEN value ELSE dict[k]]

Scalars == {NaN, NoneValue, Str} \cup {Float(v) : v \in GateValues}

\* Complete dictionaries, and those with one entry or one tier removed or
\* replaced.
GateInputs ==
  LET full == {Scores(v, s) : v \in GateValues, s \in GateValues}
  IN  full
        \cup {Without(d, key) : d \in full, key \in DOMAIN Scores(0, 0)}
        \cup {With(d, key, value) : d \in full, key \in DOMAIN Scores(0, 0), value \in Scalars}
        \cup {With(d, "size_score", Dict(<<>>)) : d \in full}
        \cup {With(d, "size_score", Dict(Without(d.size_score.items, hw))) : d \in full, hw \in Tiers}
        \cup {With(d, "size_score", Dict(With(d.size_score.items, hw, value))) :
                d \in full, hw \in Tiers, value \in Scalars}

InitGate ==
  /\ metrics \in {Some(d) : d \in GateInputs}
  /\ threshold \in Thresholds
  /\ passes = None
  /\ store = <<>>
  /\ response = None
  /\ utc = 0
  /\ calls = <<>>
  /\ model_info = ModelInfo("")
  /\ now = Today
  /\ latency_ms = 0
  /\ metric_funcs = <<>>
  /\ max_workers = PoolSize(MaxCpu)
  /\ pc = "idle"
  /\ future = [m \in Metrics |-> "new"]
  /\ results = <<>>
  /\ output = None
  /\ args = None
  /\ ret = None

\* check_ingest_threshold(metrics, threshold) is called.
Check ==
  /\ passes = None
  /\ passes' = Some([gate |-> "check_ingest_threshold",
                     result |-> IF check_ingest_threshold(metrics[1], threshold)
                                THEN "True" ELSE "False"])
  /\ UNCHANGED <<callVars, poolVars, fnVars, calls, metrics, threshold, storeVars>>

\* ingest_threshold_pass(metrics) is called; its threshold is its own.
CheckBackend ==
  /\ passes = None
  /\ threshold = D4(5000)
  /\ \E result \in ingest_threshold_pass(metrics[1]) :
       passes' = Some([gate |-> "ingest_threshold_pass", result |-> result])
  /\ UNCHANGED <<callVars, poolVars, fnVars, calls, metrics, threshold, storeVars>>

NextGate == Check \/ CheckBackend

SpecGate == InitGate /\ [][NextGate]_vars

----------------------------------------------------------------------------
(* _calculate_net_score, called on its own *)

\* The values the recorded results are tried with.
NetValues == {0, D4(3333), One}

\* Every dictionary that has results for some of the eight metrics.
NetInputs ==
  {[m \in DOMAIN f |-> MetricResult(m, f[m], 0, NoDetails)] :
     f \in UNION {[S -> NetValues] : S \in SUBSET Metrics}}

InitNet ==
  /\ results \in NetInputs
  /\ output = None
  /\ pc = "aggregate"
  /\ model_info = ModelInfo("")
  /\ now = Today
  /\ latency_ms = 0
  /\ metric_funcs = <<>>
  /\ max_workers = PoolSize(MaxCpu)
  /\ future = [m \in Metrics |-> "new"]
  /\ NoRequest

\* net_score = self._calculate_net_score(results)
NetScore ==
  /\ pc = "aggregate"
  /\ output' = Some(_calculate_net_score(results))
  /\ pc' = "done"
  /\ UNCHANGED <<callVars, max_workers, fnVars, future, results>>
  /\ UNCHANGED <<calls, gateVars, storeVars>>

NextNet == NetScore

SpecNet == InitNet /\ [][NextNet]_vars

----------------------------------------------------------------------------
(* Ingest: src/api/routes/artifacts.py, src/backend/app.py *)

\* A machine handles at most MaxRequests ingest requests, and
\* generate_artifact_id() draws from MaxIds identifiers.
MaxRequests == 2
MaxIds == 2

\* A faulty variant: a threshold just above one half.
AboveHalf == D4(5001)

\* Settings.ingest_threshold
ingest_threshold == D4(5000)

\* The URLs of the requests.
Urls == {"https://huggingface.co/google/bert-base-uncased", "https://example.com/models/m1"}

\* What parse_model_url(url) can fetch.
IngestDescriptors == {BertInfo, LlamaInfo}

\* The output of calculate_all_metrics as the Python dictionary the gate and
\* the store see.
AsDict(out) ==
  [key \in DOMAIN out |->
     IF key \in {"name", "category"} THEN Str
     ELSE IF key = "size_score" THEN Dict([hw \in DOMAIN out[key] |-> Float(out[key][hw])])
     ELSE Float(out[key])]

\* _get_default_scores(name, url); the latencies, 0.1 s, are in milliseconds.
_get_default_scores(url) ==
  LET base_score == IF AnyIn(<<"bert", "gpt", "whisper", "huggingface">>, Lower(url))
                    THEN D4(7500) ELSE D4(6000)
      keys == OutputKeys([m \in Metrics |-> 0])
  IN  [key \in keys |->
         IF key \in {"name", "category"} THEN Str
         ELSE IF key = "size_score" THEN Dict([hw \in Tiers |-> Float(base_score)])
         ELSE IF Len(key) > 8 /\ EndsWith(key, "_latency") THEN Float(100)
         ELSE Float(base_score)]

\* What default_ingest_scores(url) of the backend can return: a complete
\* dictionary of numbers, computed from what the network answers.
BackendScores == {Scores(v, s) : v \in {D4(4000), D4(7000)}, s \in {D4(4000), D4(7500)}}

MetadataKey(artifact_id) ==
  <<[type |-> "model", id |-> artifact_id], [sk |-> "METADATA", ts |-> 0]>>

RatingKey(artifact_id, ts) ==
  <<[type |-> "model", id |-> artifact_id], [sk |-> "RATING", ts |-> ts]>>

\* table.put_item(Item=item): an item with the same key is replaced.
PutItem(table, key, item) ==
  [k \in DOMAIN table \cup {key} |-> IF k = key THEN item ELSE table[k]]

\* db.create_artifact("model", artifact_id, artifact_data); the fields made
\* from the URL's text and the creation times are not kept.
create_artifact(table, artifact_id, url, d) ==
  PutItem(table, MetadataKey(artifact_id),
          [id |-> artifact_id, type |-> "model", url |-> url,
           license |-> IF d.license # "" THEN d.license ELSE "unknown",
           cost |-> total_size_bytes(d)])

\* A faulty variant: the rating is not written.
RatingDropped(table, artifact_id, ts, rating_data) == table

\* db.save_rating("model", artifact_id, rating_data)
save_rating(table, artifact_id, ts, rating_data) ==
  PutItem(table, RatingKey(artifact_id, ts), rating_data)

InitIngest ==
  /\ model_info = ModelInfo("")
  /\ now = Today
  /\ latency_ms = 0
  /\ metric_funcs = <<>>
  /\ max_workers = PoolSize(MaxCpu)
  /\ pc = "idle"
  /\ future = [m \in Metrics |-> "new"]
  /\ results = <<>>
  /\ output = None
  /\ NoRequest

\* ingest_model(body) answers 400: the body has no url, or parse_model_url
\* returned nothing.
IngestBadRequest ==
  /\ utc < MaxRequests
  /\ utc' = utc + 1
  /\ response' = Some([status |-> 400, id |-> None, accepted |-> None, score |-> None])
  /\ metrics' = None
  /\ passes' = None
  /\ UNCHANGED <<callVars, poolVars, fnVars, calls, threshold, store>>

\* A faulty variant: the artifact and its rating are written before the gate
\* is asked.
WriteThenDecide(url, d, scores, artifact_id) ==
  LET passes_threshold == check_ingest_threshold(scores, ingest_threshold)
  IN  /\ metrics' = Some(scores)
      /\ threshold' = ingest_threshold
      /\ passes' = Some([gate |-> "check_ingest_threshold",
                         result |-> IF passes_threshold THEN "True" ELSE "False"])
      /\ store' = save_rating(create_artifact(store, artifact_id, url, d),
                              artifact_id, utc, scores)
      /\ response' = IF ~passes_threshold
                     THEN Some([status |-> 424, id |-> None, accepted |-> Some(FALSE), score |-> Some(scores)])
                     ELSE Some([status |-> 201, id |-> Some(artifact_id), accepted |-> Some(TRUE), score |-> Some(scores)])

\* The end of ingest_model, from the threshold check on: a dictionary that
\* fails the gate is answered 424 before anything is written.
Decide(url, d, scores, artifact_id) ==
  LET passes_threshold == check_ingest_threshold(scores, ingest_threshold)
  IN  /\ metrics' = Some(scores)
      /\ threshold' = ingest_threshold
      /\ passes' = Some([gate |-> "check_ingest_threshold",
                         result |-> IF passes_threshold THEN "True" ELSE "False"])
      /\ IF ~passes_threshold
         THEN /\ response' = Some([status |-> 424, id |-> None, accepted |-> Some(FALSE), score |-> Some(scores)])
              /\ store' = store
         ELSE /\ response' = Some([status |-> 201, id |-> Some(artifact_id), accepted |-> Some(TRUE), score |-> Some(scores)])
              /\ store' = save_rating(create_artifact(store, artifact_id, url, d),
                                      artifact_id, utc, scores)

\* ingest_model(body) with a url that parse_model_url resolves to d: the
\* metrics are calculated, with some sub-scorers raising, the gate is asked,
\* and only then anything is written.
IngestModel(d, measured_ms) ==
  /\ utc < MaxRequests
  /\ utc' = utc + 1
  /\ model_info' = d
  /\ latency_ms' = measured_ms
  /\ metric_funcs' = MetricFuncs(d, now, measured_ms)
  /\ pc' = "done"
  /\ \E url \in Urls, faults \in FaultSets, artifact_id \in 1..MaxIds :
       /\ future' = [m \in Metrics |-> IF m \in faults THEN "raised" ELSE "returned"]
       /\ results' = Recorded(faults, metric_funcs')
       /\ output' = Some(BuildOutput(d, results', measured_ms))
       /\ calls' = Append(calls, CallRecord(d, now, future', output'[1]))
       /\ Decide(url, d, AsDict(output'[1]), artifact_id)
  /\ UNCHANGED <<now, max_workers, fnVars>>

\* ingest_model(body) when calculate_all_metrics itself raises: the default
\* scores take the place of the metrics.
IngestDefaulted(url, d, artifact_id) ==
  /\ utc < MaxRequests
  /\ utc' = utc + 1
  /\ model_info' = d
  /\ pc' = "raised"
  /\ future' = [m \in Metrics |-> "new"]
  /\ results' = <<>>
  /\ output' = None
  /\ Decide(url, d, _get_default_scores(url), artifact_id)
  /\ UNCHANGED <<now, latency_ms, metric_funcs, max_workers, fnVars, calls>>

\* ingest_model(table, body) of the backend, with the scores the network
\* gave: the gate is asked, and only then anything is written.
BackendIngestModel(url, scores, artifact_id) ==
  /\ utc < MaxRequests
  /\ utc' = utc + 1
  /\ metrics' = Some(scores)
  /\ threshold' = D4(5000)
  /\ \E ok \in ingest_threshold_pass(scores) :
       /\ passes' = Some([gate |-> "ingest_threshold_pass", result |-> ok])
       /\ CASE ok = "True" ->
                 /\ response' = Some([status |-> 201, id |-> Some(artifact_id), accepted |-> Some(TRUE), score |-> Some(scores)])
                 /\ store' = PutItem(PutItem(store, MetadataKey(artifact_id),
                                             [id |-> artifact_id, type |-> "model", url |-> url]),
                                     RatingKey(artifact_id, utc),
                                     With(With(scores, "name", Str), "category", Str))
            [] ok = "False" ->
                 /\ response' = Some([status |-> 424, id |-> None, accepted |-> Some(FALSE), score |-> Some(scores)])
                 /\ store' = store
            [] OTHER ->
                 /\ response' = Some([status |-> 500, id |-> None, accepted |-> None, score |-> None])
                 /\ store' = store
  /\ UNCHANGED <<callVars, poolVars, fnVars, calls>>

NextIngest ==
  \/ IngestBadRequest
  \/ \E d \in IngestDescriptors, measured_ms \in 0..MaxLatencyMs : IngestModel(d, measured_ms)
  \/ \E url \in Urls, d \in IngestDescriptors, artifact_id \in 1..MaxIds :
       IngestDefaulted(url, d, artifact_id)
  \/ \E url \in Urls, scores \in BackendScores, artifact_id \in 1..MaxIds :
       BackendIngestModel(url, scores, artifact_id)

SpecIngest == InitIngest /\ [][NextIngest]_vars

----------------------------------------------------------------------------
(* The license functions, called on their own *)

\* License strings as model cards spell them.
Spellings == {"", "MIT", "mit license", "Apache 2.0", "apache", "BSD_3", "bsd-2", "bsd",
              "LGPL v3", "lgpl", "AGPL", "agpl-3.0", "GPLv3", "gpl", "unknown",
              "openrail++", "bigscience-openrail-m", "cc-by-4.0", "cc-by-nc-4.0",
              "proprietary"}

\* The same strings with blanks around them; the empty spelling gives a
\* string of blanks only.
LicenseStrings == Spellings \cup {" " \o s \o " " : s \in Spellings}

\* Every variable but args and ret, for a function that is called on its own.
Idle ==
  /\ model_info = ModelInfo("")
  /\ now = Today
  /\ latency_ms = 0
  /\ metric_funcs = <<>>
  /\ max_workers = PoolSize(MaxCpu)
  /\ pc = "idle"
  /\ future = [m \in Metrics |-> "new"]
  /\ results = <<>>
  /\ output = None
  /\ calls = <<>>
  /\ metrics = None
  /\ threshold = 0
  /\ passes = None
  /\ store = <<>>
  /\ response = None
  /\ utc = 0

idleVars == <<callVars, poolVars, calls, gateVars, storeVars>>

InitNormalize ==
  /\ Idle
  /\ args \in {Some(s) : s \in LicenseStrings}
  /\ ret = <<>>

\* metric._normalize_license(license_str), and then once more on what it
\* returned: ret holds the results in order.
MaxNormalize == 2

Normalize ==
  /\ Len(ret) < MaxNormalize
  /\ ret' = Append(ret, _normalize_license(IF ret = <<>> THEN args[1] ELSE ret[Len(ret)]))
  /\ UNCHANGED <<idleVars, args>>

NextNormalize == Normalize

SpecNormalize == InitNormalize /\ [][NextNormalize]_vars

InitCompatible ==
  /\ Idle
  /\ args \in {<<license1, license2>> : license1 \in Spellings, license2 \in Spellings}
  /\ ret = None

\* check_license_compatibility(license1, license2)
CheckCompatibility ==
  /\ ret = None
  /\ ret' = Some(check_license_compatibility(args[1], args[2]))
  /\ UNCHANGED <<idleVars, args>>

NextCompatible == CheckCompatibility

SpecCompatible == InitCompatible /\ [][NextCompatible]_vars

----------------------------------------------------------------------------
(* Rating an artifact: src/api/routes/rating.py, src/backend/app.py *)

\* A service handles at most MaxRateRequests requests.
MaxRateRequests == 3

\* The URLs artifacts are created with: body["url"] may be the empty string.
ArtifactUrls == {"", "https://huggingface.co/google/bert-base-uncased"}

\* A rating item as the table holds it, without its keys.
Named(scores) == With(With(scores, "name", Str), "category", Str)

\* _create_default_rating of the API: every score 0.5.
default_rating == Named(Scores(D4(5000), D4(5000)))

\* create_default_ratings of the deployed build
\* (src/infrastructure/.aws-sam/build/RegistryFunction/app.py): every score 0.
ZeroRating == Named(Scores(0, 0))

\* create_default_ratings of the backend for an artifact without url: scores
\* is {}, so that every score is the base 0.6 and the tiers are their
\* defaults.
BaseRating ==
  Named([Scores(D4(6000), 0) EXCEPT !["size_score"] =
           Dict([hw \in Tiers |->
                   Float(CASE hw = "raspberry_pi" -> D4(7500)
                           [] hw = "jetson_nano" -> D4(8000)
                           [] hw = "desktop_pc" -> D4(9000)
                           [] OTHER -> D4(9500))])])

\* table.get_item(Key={"pk": pk, "sk": "METADATA"})
GetArtifact(table, artifact_id) ==
  IF MetadataKey(artifact_id) \in DOMAIN table THEN Some(table[MetadataKey(artifact_id)])
  ELSE None

\* A faulty variant: the stored rating is never found.
NoRating(table, artifact_id) == None

\* The query of get_latest_rating and of rate_model: the items of the
\* artifact whose sk begins with RATING#, in descending order, limit 1.
get_latest_rating(table, artifact_id) ==
  LET keys == {k \in DOMAIN table : k[1].id = artifact_id /\ k[2].sk = "RATING"}
  IN  IF keys = {} THEN None
      ELSE Some(table[CHOOSE k \in keys : \A j \in keys : j[2].ts <= k[2].ts])

Answer(op, artifact_id, status, rating) ==
  Some([op |-> op, id |-> artifact_id, status |-> status, score |-> rating])

InitRate ==
  /\ model_info = ModelInfo("")
  /\ now = Today
  /\ latency_ms = 0
  /\ metric_funcs = <<>>
  /\ max_workers = PoolSize(MaxCpu)
  /\ pc = "idle"
  /\ future = [m \in Metrics |-> "new"]
  /\ results = <<>>
  /\ output = None
  /\ NoRequest

rateVars == <<callVars, poolVars, fnVars, calls, gateVars>>

\* create_artifact("model", body) of the API: the METADATA item, then the
\* default rating; saved is false when that second write fails.
CreateArtifact(url, artifact_id, saved) ==
  /\ utc < MaxRateRequests
  /\ utc' = utc + 1
  /\ LET created == PutItem(store, MetadataKey(artifact_id),
                            [id |-> artifact_id, type |-> "model", url |-> url])
     IN  store' = IF saved THEN save_rating(created, artifact_id, utc, default_rating)
                  ELSE created
  /\ response' = Answer("create_artifact", artifact_id, IF saved THEN 201 ELSE 500, None)
  /\ UNCHANGED rateVars

\* create_artifact(table, "model", body) of the backend, with
\* create_default_ratings: the scores are what default_ingest_scores(url)
\* gives, or the base scores when the url is empty.
BackendCreateArtifact(url, art_id, scores) ==
  /\ utc < MaxRateRequests
  /\ utc' = utc + 1
  /\ store' = PutItem(PutItem(store, MetadataKey(art_id),
                              [id |-> art_id, type |-> "model", url |-> url]),
                      RatingKey(art_id, utc),
                      IF url # "" THEN Named(scores) ELSE BaseRating)
  /\ response' = Answer("create_artifact", art_id, 201, None)
  /\ UNCHANGED rateVars

\* create_artifact(table, "model", body) of the deployed build: its
\* create_default_ratings writes a rating of zeros.
BuildCreateArtifact(url, art_id) ==
  /\ utc < MaxRateRequests
  /\ utc' = utc + 1
  /\ store' = PutItem(PutItem(store, MetadataKey(art_id),
                              [id |-> art_id, type |-> "model", url |-> url]),
                      RatingKey(art_id, utc), ZeroRating)
  /\ response' = Answer("create_artifact", art_id, 201, None)
  /\ UNCHANGED rateVars

\* rate_model(artifact_id) of the API; parsed is what parse_model_url(url)
\* returns, a descriptor or None.
RateModel(artifact_id, parsed) ==
  /\ utc < MaxRateRequests
  /\ utc' = utc + 1
  /\ LET artifact == GetArtifact(store, artifact_id)
         rating == get_latest_rating(store, artifact_id)
     IN  IF artifact = None
           THEN /\ response' = Answer("rate_model", artifact_id, 404, None)
                /\ store' = store
         ELSE IF rating # None
           THEN /\ response' = Answer("rate_model", artifact_id, 200, rating)
                /\ store' = store
         ELSE IF artifact[1].url = "" \/ parsed = None
           THEN /\ response' = Answer("rate_model", artifact_id, 500, None)
                /\ store' = store
         ELSE LET calculated == AsDict(BuildOutput(parsed[1],
                                                   MetricFuncs(parsed[1], now, 0), 0))
              IN  /\ store' = save_rating(store, artifact_id, utc, calculated)
                  /\ response' = Answer("rate_model", artifact_id, 200, Some(calculated))
  /\ UNCHANGED rateVars

\* rate_model(table, art_id) of the backend; scores is what
\* default_ingest_scores(url) gives.
BackendRateModel(art_id, scores) ==
  /\ utc < MaxRateRequests
  /\ utc' = utc + 1
  /\ LET look == GetArtifact(store, art_id)
         found == get_latest_rating(store, art_id)
         created == IF look[1].url # "" THEN Named(scores) ELSE BaseRating
         rating == IF found # None THEN found[1] ELSE created
         seeded == IF found # None THEN store
                   ELSE PutItem(store, RatingKey(art_id, utc), created)
         net_score == Get(rating, "net_score", Float(0))
     IN  IF look = None
           THEN /\ response' = Answer("rate_model", art_id, 404, None)
                /\ store' = store
         ELSE IF net_score.v = 0 /\ look[1].url # ""
           THEN /\ store' = PutItem(seeded, RatingKey(art_id, utc), Named(scores))
                /\ response' = Answer("rate_model", art_id, 200, Some(Named(scores)))
         ELSE /\ store' = seeded
              /\ response' = Answer("rate_model", art_id, 200, Some(rating))
  /\ UNCHANGED rateVars

NextRate ==
  \/ \E url \in ArtifactUrls, artifact_id \in 1..MaxIds, saved \in BOOLEAN :
       CreateArtifact(url, artifact_id, saved)
  \/ \E url \in ArtifactUrls, art_id \in 1..MaxIds, scores \in BackendScores :
       BackendCreateArtifact(url, art_id, scores)
  \/ \E url \in ArtifactUrls, art_id \in 1..MaxIds : BuildCreateArtifact(url, art_id)
  \/ \E artifact_id \in 1..MaxIds, parsed \in {None, Some(BertInfo)} :
       RateModel(artifact_id, parsed)
  \/ \E art_id \in 1..MaxIds, scores \in BackendScores : BackendRateModel(art_id, scores)

SpecRate == InitRate /\ [][NextRate]_vars

----------------------------------------------------------------------------
(* _calculate_hardware_score, called on its own *)

\* The limits of HARDWARE_LIMITS, and one limit that is no power of two.
Limits == {HARDWARE_LIMITS[hw] : hw \in Tiers} \cup {12}

\* No size, the smallest size, and the sizes at and just above each bracket
\* bound of a limit.
SizesAround(limit_bytes) ==
  {0, 1, 2 * limit_bytes}
    \cup UNION {{bound, bound + 1} : bound \in {limit_bytes \div 4, limit_bytes \div 2,
                                                 (3 * limit_bytes) \div 4, limit_bytes,
                                                 (3 * limit_bytes) \div 2}}

InitHardware ==
  /\ Idle
  /\ args \in {<<size_bytes, limit_bytes>> :
                 size_bytes \in UNION {SizesAround(l) : l \in Limits}, limit_bytes \in Limits}
  /\ ret = None

\* self._calculate_hardware_score(size_bytes, hw_limit)
HardwareScore ==
  /\ ret = None
  /\ ret' = Some(_calculate_hardware_score(args[1], args[2]))
  /\ UNCHANGED <<idleVars, args>>

NextHardware == HardwareScore

SpecHardware == InitHardware /\ [][NextHardware]_vars

----------------------------------------------------------------------------
(* The sub-scorers, called on their own with fields that hold None *)

\* The fields that may hold None in place of a value; "size" is the size of
\* every entry of the file list.
NoneFields == {"tags", "downloads", "likes", "readme", "license", "api_data", "size"}

\* What the guarded reads (if model_info.license, model_info.readme.lower() if
\* model_info.readme else "", model_info.api_data or {}) make of a None: the
\* field's empty value.  The other fields stand at their empty value too, and
\* are only read where Raises says no read of them fails.
Falsy(d, none) ==
  [d EXCEPT
     !.tags = IF "tags" \in none THEN <<>> ELSE d.tags,
     !.downloads = IF "downloads" \in none THEN 0 ELSE d.downloads,
     !.likes = IF "likes" \in none THEN 0 ELSE d.likes,
     !.readme = IF "readme" \in none THEN "" ELSE d.readme,
     !.license = IF "license" \in none THEN "" ELSE d.license,
     !.api_data = IF "api_data" \in none THEN ModelInfo("").api_data ELSE d.api_data,
     !.siblings = IF "size" \in none
                    THEN [k \in 1..Len(d.siblings) |-> [d.siblings[k] EXCEPT !.size = 0]]
                    ELSE d.siblings]

\* total += file_info.get("size", 0) with a size of None.
TotalSizeRaises(d, none) ==
  "size" \in none /\ \E k \in 1..Len(d.siblings) : d.siblings[k].dict

\* for tag in model_info.tags, reached when steps 1 to 3 found no license.
ExtractLicenseRaises(d, none) ==
  LET m == Falsy(d, none)
  IN  /\ "tags" \in none
      /\ m.license = ""
      /\ m.api_data.license = None
      /\ m.api_data.cardData.license = None

\* model_info.total_size_bytes > 0, and downloads > 1000000 when steps 1 to 4
\* returned nothing.
EstimateSizeRaises(d, none) ==
  \/ TotalSizeRaises(d, none)
  \/ "downloads" \in none /\ SizeBeforeDownloads(Falsy(d, none)) = None

\* len(model_info.tags) in _score_model_card; downloads >= 1000000 and
\* likes >= 1000 in _score_popularity.
RampUpRaises(d, none) == none \cap {"tags", "downloads", "likes"} # {}

\* for tag in model_info.tags when the name gave no organization; in
\* _score_community downloads >= 1000000 always, and likes >= ... behind the
\* first four tests of downloads, the last of which is downloads >= 1000.
BusFactorRaises(d, none) ==
  \/ "tags" \in none /\ OrgByName(d) = None
  \/ "downloads" \in none
  \/ "likes" \in none /\ d.downloads >= 1000

\* Whether calculate(model_info) of the sub-scorer raises a TypeError.
Raises(metric_name, d, none) ==
  CASE metric_name = "license" -> ExtractLicenseRaises(d, none)
    [] metric_name = "size_score" -> EstimateSizeRaises(d, none)
    [] metric_name = "ramp_up_time" -> RampUpRaises(d, none)
    [] metric_name = "bus_factor" -> BusFactorRaises(d, none)
    [] metric_name \in {"performance_claims", "dataset_and_code_score",
                        "dataset_quality"} -> "tags" \in none
    [] metric_name = "code_quality" -> FALSE

\* The sub-scorer's calculate(model_info).
CalculateOne(metric_name, d) ==
  CASE metric_name = "license" -> LicenseCalculate(d, 0)
    [] metric_name = "size_score" -> SizeCalculate(d, 0)
    [] metric_name = "ramp_up_time" -> RampUpCalculate(d, 0)
    [] metric_name = "bus_factor" -> BusFactorCalculate(d, Today, 0)
    [] metric_name = "performance_claims" -> PerformanceCalculate(d, 0)
    [] metric_name = "dataset_and_code_score" -> DatasetCodeCalculate(d, 0)
    [] metric_name = "dataset_quality" -> DatasetQualityCalculate(d, 0)
    [] metric_name = "code_quality" -> CodeQualityCalculate(d, 0)

InitMalformed ==
  /\ Idle
  /\ args \in [model_info : Descriptors, none : SUBSET NoneFields]
  /\ ret = None

\* metric.calculate(model_info): the MetricResult, or the exception.
Calculate(metric_name) ==
  /\ ret = None
  /\ ret' = IF Raises(metric_name, args.model_info, args.none)
              THEN [metric |-> metric_name, raised |-> TRUE, value |-> None]
              ELSE [metric |-> metric_name, raised |-> FALSE,
                    value |-> Some(CalculateOne(metric_name,
                                                Falsy(args.model_info, args.none)).value)]
  /\ UNCHANGED <<idleVars, args>>

NextMalformed == \E metric_name \in Metrics : Calculate(metric_name)

SpecMalformed == InitMalformed /\ [][NextMalformed]_vars

----------------------------------------------------------------------------
(* _estimate_size, called on its own *)

SizeNames ==
  {"", "org/model", "meta-llama/Llama-2-7b", "google-bert/bert-base-uncased", "bert",
   "openai-community/gpt2", "gpt2-xl", "openai/whisper-v3", "openai/whisper-tiny",
   "sentence-transformers/all-MiniLM-L6-v2", "org/model-13b", "t5-small", "gpt2-medium",
   "bert-large-uncased", "google/flan-t5-xxl"}

\* File lists: none, one of 400 MiB, one entry that is not a dict.
SizeSiblings ==
  {<<>>, <<File("model.bin", 400 * MiB)>>,
   <<[File("model.bin", 400 * MiB) EXCEPT !.dict = FALSE]>>}

\* File lists of the API response: none, one without a size, one of 300 MiB.
SizeApiSiblings == {<<>>, <<File("model.bin", 0)>>, <<File("model.bin", 300 * MiB)>>}

\* Download counts on both sides of 10000, 100000 and 1000000.
SizeDownloads == {0, 10000, 10001, 100000, 100001, 1000000, 1000001}

SizeInputs ==
  {[ModelInfo(name) EXCEPT !.library_name = library_name, !.siblings = siblings,
                           !.api_data.siblings = api_siblings, !.downloads = downloads] :
     name \in SizeNames, library_name \in {"", "sentence-transformers"},
     siblings \in SizeSiblings, api_siblings \in SizeApiSiblings, downloads \in SizeDownloads}

InitSize ==
  /\ Idle
  /\ args \in SizeInputs
  /\ ret = None

\* self._estimate_size(model_info)
EstimateSize ==
  /\ ret = None
  /\ ret' = Some(_estimate_size(args))
  /\ UNCHANGED <<idleVars, args>>

NextSize == EstimateSize

SpecSize == InitSize /\ [][NextSize]_vars

----------------------------------------------------------------------------
(* _score_license, called on a normalized license *)

\* License strings as model cards spell them, some of them no table key.
ScoreSpellings ==
  LicenseStrings \cup {"cc", "CC BY", "custom", "my-mit-like", "llama", "isc", "o"}

InitScoreLicense ==
  /\ Idle
  /\ args \in {<<s>> : s \in ScoreSpellings}
  /\ ret = <<>>

\* normalized = self._normalize_license(license_str)
NormalizeForScore ==
  /\ ret = <<>>
  /\ ret' = <<_normalize_license(args[1])>>
  /\ UNCHANGED <<idleVars, args>>

\* score = self._score_license(normalized)
ScoreLicense ==
  /\ Len(ret) = 1
  /\ ret' = Append(ret, _score_license(ret[1]))
  /\ UNCHANGED <<idleVars, args>>

NextScoreLicense == NormalizeForScore \/ ScoreLicense

SpecScoreLicense == InitScoreLicense /\ [][NextScoreLicense]_vars

----------------------------------------------------------------------------
(* Requests handled at the same time on one table: src/api/routes/artifacts.py,
   src/api/routes/rating.py, src/api/database.py *)

\* Each worker handles one request; the workers share the table only.
Workers == 1..3

Handlers == {"ingest_model", "create_artifact", "rate_model", "delete_artifact"}

\* table.delete_item(Key=key)
DeleteItem(table, key) == [k \in DOMAIN table \ {key} |-> table[k]]

\* The query of delete_artifact: the keys of the artifact whose sk begins
\* with RATING#.
RatingsOf(table, artifact_id) ==
  {k \in DOMAIN table : k[1].id = artifact_id /\ k[2].sk = "RATING"}

\* What calculate_all_metrics returns for the model of the requests' url; it
\* passes the gate. The specification keeps it in metrics.
Calculated == AsDict(BuildOutput(BertInfo, MetricFuncs(BertInfo, Today, 0), 0))

\* A worker without a request.
Free == [op |-> "", at |-> "idle", id |-> 0, items |-> {}]

InitHandlers ==
  /\ model_info = ModelInfo("")
  /\ now = Today
  /\ latency_ms = 0
  /\ metric_funcs = <<>>
  /\ max_workers = PoolSize(MaxCpu)
  /\ pc = "idle"
  /\ future = [m \in Metrics |-> "new"]
  /\ results = <<>>
  /\ output = None
  /\ calls = <<>>
  /\ metrics = Some(Calculated)
  /\ threshold = 0
  /\ passes = None
  /\ store = <<>>
  /\ response = None
  /\ utc = 0
  /\ args = [w \in Workers |-> Free]
  /\ ret = [w \in Workers |-> 0]

handlerVars == <<callVars, poolVars, calls, gateVars, response>>

\* The ids that are in the table or drawn by a request in progress.
InUse ==
  {k[1].id : k \in DOMAIN store}
    \cup {args[w].id : w \in {v \in Workers : args[v].at \notin {"idle", "done"}}}

\* A worker takes a request. ingest_model and create_artifact draw the id
\* with generate_artifact_id, taken here to give an id that is not in use;
\* rate_model and delete_artifact get the id from the request's path.
Receive(w, op, artifact_id) ==
  /\ args[w].at = "idle"
  /\ op \in {"ingest_model", "create_artifact"} => artifact_id \notin InUse
  /\ args' = [args EXCEPT ![w] =
                [op |-> op,
                 at |-> IF op \in {"ingest_model", "create_artifact"} THEN "create_artifact"
                        ELSE "get_artifact",
                 id |-> artifact_id, items |-> {}]]
  /\ UNCHANGED <<handlerVars, store, utc, ret>>

\* db.create_artifact of ingest_model and of create_artifact: the METADATA
\* item is put.
DbCreateArtifact(w) ==
  /\ args[w].at = "create_artifact"
  /\ store' = PutItem(store, MetadataKey(args[w].id),
                      [id |-> args[w].id, type |-> "model",
                       url |-> "https://huggingface.co/google/bert-base-uncased"])
  /\ args' = [args EXCEPT ![w].at = "save_rating"]
  /\ UNCHANGED <<handlerVars, utc, ret>>

\* db.save_rating of ingest_model, of _create_default_rating and of
\* rate_model; the handler then returns.
DbSaveRating(w) ==
  /\ args[w].at = "save_rating"
  /\ store' = save_rating(store, args[w].id, utc,
                          IF args[w].op = "create_artifact" THEN default_rating
                          ELSE metrics[1])
  /\ utc' = utc + 1
  /\ args' = [args EXCEPT ![w].at = "done"]
  /\ ret' = [ret EXCEPT ![w] = IF args[w].op = "rate_model" THEN 200 ELSE 201]
  /\ UNCHANGED handlerVars

\* db.get_artifact of rate_model and of db.delete_artifact: 404 when the
\* METADATA item is not there.
DbGetArtifact(w) ==
  /\ args[w].at = "get_artifact"
  /\ IF GetArtifact(store, args[w].id) = None
       THEN /\ args' = [args EXCEPT ![w].at = "done"]
            /\ ret' = [ret EXCEPT ![w] = 404]
     ELSE /\ args' = [args EXCEPT ![w].at = IF args[w].op = "rate_model"
                                              THEN "get_latest_rating"
                                            ELSE "delete_item"]
          /\ ret' = ret
  /\ UNCHANGED <<handlerVars, store, utc>>

\* db.get_latest_rating of rate_model: a stored rating is returned, else one
\* is calculated from the artifact's url.
DbGetLatestRating(w) ==
  /\ args[w].at = "get_latest_rating"
  /\ IF get_latest_rating(store, args[w].id) # None
       THEN /\ args' = [args EXCEPT ![w].at = "done"]
            /\ ret' = [ret EXCEPT ![w] = 200]
     ELSE /\ args' = [args EXCEPT ![w].at = "save_rating"]
          /\ ret' = ret
  /\ UNCHANGED <<handlerVars, store, utc>>

\* db.delete_artifact: the METADATA item is deleted.
DbDeleteItem(w) ==
  /\ args[w].at = "delete_item"
  /\ store' = DeleteItem(store, MetadataKey(args[w].id))
  /\ args' = [args EXCEPT ![w].at = "query"]
  /\ UNCHANGED <<handlerVars, utc, ret>>

\* db.delete_artifact: the ratings of the artifact are queried.
DbQuery(w) ==
  /\ args[w].at = "query"
  /\ args' = [args EXCEPT ![w].at = "batch_writer",
                          ![w].items = RatingsOf(store, args[w].id)]
  /\ UNCHANGED <<handlerVars, store, utc, ret>>

\* db.delete_artifact: the batch writer deletes the items the query gave,
\* one request per item; the handler returns when none is left.
DbBatchDelete(w) ==
  /\ args[w].at = "batch_writer"
  /\ IF args[w].items = {}
       THEN /\ args' = [args EXCEPT ![w].at = "done"]
            /\ ret' = [ret EXCEPT ![w] = 200]
            /\ store' = store
     ELSE \E key \in args[w].items :
            /\ store' = DeleteItem(store, key)
            /\ args' = [args EXCEPT ![w].items = args[w].items \ {key}]
            /\ ret' = ret
  /\ UNCHANGED <<handlerVars, utc>>

NextHandlers ==
  \/ \E w \in Workers, op \in Handlers, artifact_id \in 1..MaxIds : Receive(w, op, artifact_id)
  \/ \E w \in Workers : DbCreateArtifact(w)
  \/ \E w \in Workers : DbSaveRating(w)
  \/ \E w \in Workers : DbGetArtifact(w)
  \/ \E w \in Workers : DbGetLatestRating(w)
  \/ \E w \in Workers : DbDeleteItem(w)
  \/ \E w \in Workers : DbQuery(w)
  \/ \E w \in Workers : DbBatchDelete(w)

SpecHandlers == InitHandlers /\ [][NextHandlers]_vars

----------------------------------------------------------------------------
(* Properties *)

Half == D4(5000)

InUnit(v) == 0 <= v /\ v <= One

IsLatencyKey(key) == Len(key) > 8 /\ EndsWith(key, "_latency")

\* The keys of a full rating, and its fields other than the latencies.
RatingKeys == OutputKeys([m \in Metrics |-> 0])

NonLatency(out) == [key \in {k \in DOMAIN out : ~IsLatencyKey(k)} |-> out[key]]

Observed == {m \in Metrics : future[m] \in {"returned", "raised"}}

Raised == {m \in Metrics : future[m] = "raised"}

AtLeast(dict, key, t) ==
  key \in DOMAIN dict /\ dict[key].type = "float" /\ dict[key].v >= t

AllAtLeast(dict, t) ==
  /\ \A k \in 1..Len(NON_LATENCY_KEYS) : AtLeast(dict, NON_LATENCY_KEYS[k], t)
  /\ "size_score" \in DOMAIN dict
  /\ dict["size_score"].type = "dict"
  /\ \A hw \in Tiers : AtLeast(dict["size_score"].items, hw, t)

C2_TrueIffAllAtLeast ==
  (passes # None /\ passes[1].gate = "check_ingest_threshold")
    => (passes[1].result = "True" <=> AllAtLeast(metrics[1], threshold))

\* C3: the gate, in either implementation, does not return true for a
\* dictionary in which one of the eleven metrics, size_score itself or one of
\* the four tiers is missing or is no number.
NotNumber(value) == value.type \in {"NoneType", "str", "dict"}

Unusable(dict, key) == key \notin DOMAIN dict \/ NotNumber(dict[key])

IllFormed(dict) ==
  \/ \E k \in 1..Len(NON_LATENCY_KEYS) : Unusable(dict, NON_LATENCY_KEYS[k])
  \/ "size_score" \notin DOMAIN dict
  \/ dict["size_score"].type # "dict"
  \/ \E hw \in Tiers : Unusable(dict["size_score"].items, hw)

C3_FailClosed ==
  (passes # None /\ IllFormed(metrics[1])) => passes[1].result # "True"

\* C4: a request whose metrics fail the gate is answered 424 with
\* accepted = false, and the step that handles it leaves the table as it was.
C4_RejectWritesNothing ==
  [][(utc' = utc + 1 /\ passes' # None /\ passes'[1].result = "False")
       => (/\ response'[1].status = 424
           /\ response'[1].accepted = Some(FALSE)
           /\ store' = store)]_vars

\* A request was rejected while the table held an earlier, accepted model.
C4_Witness ==
  /\ response # None
  /\ response[1].status = 424
  /\ passes # None /\ passes[1].result = "False"
  /\ DOMAIN store # {}

\* C5: every value a sub-scorer returns, every recorded result, every tier of
\* the size scorer, and every score of the returned rating is in [0, 1].
C5_ScoresInUnitInterval ==
  /\ \A m \in DOMAIN metric_funcs : InUnit(metric_funcs[m].value)
  /\ \A m \in DOMAIN metric_funcs \cap {"size_score"} :
       \A hw \in Tiers : InUnit(metric_funcs[m].details.hardware_scores[1][hw])
  /\ \A m \in DOMAIN results : InUnit(results[m].value)
  /\ output # None =>
       \A key \in DOMAIN NonLatency(output[1]) \ {"name", "category"} :
         IF key = "size_score" THEN \A hw \in Tiers : InUnit(output[1][key][hw])
         ELSE InUnit(output[1][key])

\* A rating was returned that has a tier of 0, a tier of 1 and a substituted
\* metric.
C5_Witness ==
  /\ pc = "done"
  /\ output # None
  /\ output[1]["size_score"]["raspberry_pi"] = 0
  /\ \E hw \in Tiers : output[1]["size_score"][hw] = One
  /\ Raised # {}

\* C6: two calls on the same descriptor, with the same sub-scorers raising,
\* return the same scores whenever they are made.
C6_SameScoresAtAnyTime ==
  \A i, j \in 1..Len(calls) :
    (calls[i].model_info = calls[j].model_info /\ calls[i].raised = calls[j].raised)
      => NonLatency(calls[i].output) = NonLatency(calls[j].output)

\* C7: the outcomes of the eight tasks fix what is recorded and what is
\* returned: at every pool size and in every order of completion, each
\* recorded result is the one its task's outcome gives, and the returned
\* scores are those computed from the eight outcomes alone.
C7_OrderAndPoolSizeIrrelevant ==
  /\ DOMAIN results = Observed
  /\ \A m \in DOMAIN results : results[m] = FutureResult(m, future[m], metric_funcs)
  /\ pc = "done" =>
       NonLatency(output[1]) =
         NonLatency(BuildOutput(model_info, Recorded(Raised, metric_funcs), 0))

\* With two workers, the second task submitted was recorded while the first
\* was still running, and the call went on to return.
C7_Witness ==
  /\ max_workers = 2
  /\ pc = "as_completed"
  /\ "size_score" \in DOMAIN results
  /\ future["license"] = "running"

\* C8: once the loop over the completed futures is left, and whenever a
\* rating exists, a result is recorded for each of the eight sub-scorers, and
\* the net score and the derived metrics are those of the eight results.
C8_AggregatesAllEight ==
  (pc \in {"aggregate", "done"} \/ output # None) =>
    /\ DOMAIN results = Metrics
    /\ \A m \in Metrics : future[m] \in {"returned", "raised"}
    /\ output # None =>
         /\ output[1]["net_score"] = _calculate_net_score(results)
         /\ output[1]["reproducibility"] = _calculate_reproducibility(results)
         /\ output[1]["reviewedness"] = _calculate_reviewedness(results)
         /\ output[1]["tree_score"] = _calculate_tree_score(results)

\* The loop was left with three workers and a faulted first task, and the
\* scores have not been computed yet.
C8_Witness ==
  /\ pc = "aggregate"
  /\ output = None
  /\ max_workers = 3
  /\ future["license"] = "raised"
  /\ DOMAIN results = Metrics

Weighted == {"license", "ramp_up_time", "bus_factor", "performance_claims",
             "dataset_and_code_score", "dataset_quality", "code_quality"}

Percent(m) ==
  CASE m = "license" -> 15
    [] m = "ramp_up_time" -> 20
    [] m = "bus_factor" -> 10
    [] m = "performance_claims" -> 15
    [] m = "dataset_and_code_score" -> 20
    [] m = "dataset_quality" -> 10
    [] m = "code_quality" -> 10

RECURSIVE SumOver(_, _)
SumOver(S, f) ==
  IF S = {} THEN 0
  ELSE LET m == CHOOSE x \in S : TRUE IN f[m] + SumOver(S \ {m}, f)

Present == Weighted \cap DOMAIN results

PresentWeight == SumOver(Present, [m \in Present |-> Percent(m)])

PresentSum == SumOver(Present, [m \in Present |-> Percent(m) * results[m].value])

Distance(a, b) == IF a >= b THEN a - b ELSE b - a

C10_NetScoreWeightedMean ==
  output # None =>
    /\ PresentWeight = 0 => output[1] = Half
    /\ PresentWeight > 0 =>
         /\ output[1] % 100 = 0
         /\ 2 * Distance(output[1] * PresentWeight, PresentSum) <= 100 * PresentWeight
    /\ output[1] = _calculate_net_score(Without(results, "size_score"))

\* A net score was computed with some of the seven missing, with the size
\* result there, and with a mean that had to be rounded.
C10_Witness ==
  /\ output # None
  /\ PresentWeight > 0
  /\ PresentWeight < 100
  /\ "size_score" \in DOMAIN results
  /\ PresentSum % (100 * PresentWeight) # 0

\* C11: in every returned rating the three derived fields are the weighted
\* sums of the primary values that same rating reports, to the nearest fourth
\* decimal: reproducibility of 0.4 dataset_and_code_score, 0.3 code_quality
\* and 0.3 ramp_up_time; reviewedness of 0.5 bus_factor and 0.5
\* performance_claims; tree_score of 0.6 license and 0.4 code_quality.
NearestFourth(value, tenths) ==
  value % 100 = 0 /\ 2 * Distance(10 * value, tenths) <= 1000

C11_DerivedFromReported ==
  output # None =>
    LET rating == output[1]
    IN  /\ NearestFourth(rating["reproducibility"],
                         4 * rating["dataset_and_code_score"] + 3 * rating["code_quality"]
                           + 3 * rating["ramp_up_time"])
        /\ NearestFourth(rating["reviewedness"],
                         5 * rating["bus_factor"] + 5 * rating["performance_claims"])
        /\ NearestFourth(rating["tree_score"],
                         6 * rating["license"] + 4 * rating["code_quality"])

\* A rating was returned in which one input of each derived field is a
\* substitute and another is a value its sub-scorer returned.
C11_Witness ==
  /\ output # None
  /\ Raised = {"code_quality", "bus_factor"}
  /\ output[1]["tree_score"] # Half
  /\ output[1]["reviewedness"] # Half

\* C12: normalizing a license string a second time gives what the first
\* normalization gave.
C12_NormalizeIdempotent ==
  Len(ret) >= 2 => ret[2] = ret[1]

\* C13: two licenses are compatible exactly when, normalized, one of them is
\* permissive, or they are equal, or both are of the GPL family (gpl-2.0,
\* gpl-3.0, lgpl-2.1, lgpl-3.0, agpl-3.0), or both are OpenRAIL variants, or
\* both score at least 0.7.
GplFamily == {"gpl-2.0", "gpl-3.0", "lgpl-2.1", "lgpl-3.0", "agpl-3.0"}

Compatible(l1, l2) ==
  \/ l1 \in permissive \/ l2 \in permissive
  \/ l1 = l2
  \/ l1 \in GplFamily /\ l2 \in GplFamily
  \/ l1 \in openrail /\ l2 \in openrail
  \/ _score_license(l1) >= D4(7000) /\ _score_license(l2) >= D4(7000)

C13_CompatibleExactlyWhen ==
  ret # None =>
    (ret[1] <=> Compatible(_normalize_license(args[1]), _normalize_license(args[2])))

\* C14: rating a model that has a stored rating returns the most recent one
\* and writes nothing, unless that one is all zeros; then a rating is
\* computed, stored, and returned.
AllZero(rating) ==
  /\ \A k \in 1..Len(NON_LATENCY_KEYS) : rating[NON_LATENCY_KEYS[k]].v = 0
  /\ \A hw \in Tiers : rating["size_score"].items[hw].v = 0

RateStep ==
  /\ utc' = utc + 1
  /\ response'[1].op = "rate_model"
  /\ GetArtifact(store, response'[1].id) # None
  /\ get_latest_rating(store, response'[1].id) # None

C14_LatestUnlessAllZero ==
  [][RateStep =>
       LET latest == get_latest_rating(store, response'[1].id)[1]
       IN  IF ~AllZero(latest)
             THEN response'[1].score = Some(latest) /\ store' = store
           ELSE /\ store' # store
                /\ response'[1].score = get_latest_rating(store', response'[1].id)
                /\ response'[1].score # Some(latest)]_vars

\* C15: for a positive size the hardware score is 1.0 when size/limit is at
\* most 0.25, else 0.9 when at most 0.5, else 0.7 when at most 0.75, else 0.5
\* when at most 1.0, else 0.2 when at most 1.5, else 0.0; a size equal to the
\* limit scores 0.5.
\* size/limit <= num/den
RatioAtMost(size, limit, num, den) == den * size <= num * limit

Bracket(size, limit) ==
  CASE RatioAtMost(size, limit, 1, 4) -> D4(10000)
    [] ~RatioAtMost(size, limit, 1, 4) /\ RatioAtMost(size, limit, 1, 2) -> D4(9000)
    [] ~RatioAtMost(size, limit, 1, 2) /\ RatioAtMost(size, limit, 3, 4) -> D4(7000)
    [] ~RatioAtMost(size, limit, 3, 4) /\ RatioAtMost(size, limit, 1, 1) -> D4(5000)
    [] ~RatioAtMost(size, limit, 1, 1) /\ RatioAtMost(size, limit, 3, 2) -> D4(2000)
    [] ~RatioAtMost(size, limit, 3, 2) -> 0

CleanCalls(d) ==
  {i \in 1..Len(calls) : calls[i].model_info = d /\ calls[i].raised = {}}

PassesGate(out) == check_ingest_threshold(AsDict(out), D4(5000))

\* C16: the descriptor with 2,000,000 downloads, 5000 likes, license "mit",
\* the tag "bert-base-uncased" and a readme of "usage", a python code fence
\* and "accuracy: 95%" gets a net score of at least 0.7 and passes the gate.
C16_ScenarioAccepted ==
  \A i \in CleanCalls(ScenarioInfo) :
    calls[i].output["net_score"] >= D4(7000) /\ PassesGate(calls[i].output)

\* C17: the descriptor of defaults gets license 0.1 and every other primary
\* metric between 0.3 and 0.4, and fails the gate.
C17_DefaultsAtBase ==
  \A i \in CleanCalls(ModelInfo("")) :
    /\ calls[i].output["license"] = D4(1000)
    /\ \A m \in Weighted \ {"license"} :
         D4(3000) <= calls[i].output[m] /\ calls[i].output[m] <= D4(4000)
    /\ ~PassesGate(calls[i].output)

\* C18: whichever of its fields hold None, each of the eight sub-scorers
\* returns a result, with the score it gives the descriptor whose None fields
\* are empty, and does not raise.
C18_DegradesWithoutRaising ==
  ret # None =>
    /\ ~ret.raised
    /\ ret.value = Some(CalculateOne(ret.metric, Falsy(args.model_info, args.none)).value)

\* The life of a future: submitted, taken by a worker, ended, collected.
Stages ==
  {<<"new", "pending">>, <<"pending", "running">>, <<"running", "finished">>,
   <<"finished", "returned">>, <<"finished", "raised">>}

\* C19: within one call each of the eight scoring functions is submitted once
\* and run once, every one of them has run when the call ends, and never more
\* than min(8, processors) of them are running together.
C19_EachOnceWithinPool ==
  /\ [](/\ Cardinality(Running) <= max_workers
        /\ \E cpu_count \in 1..MaxCpu : max_workers = Min(8, cpu_count)
        /\ pc = "done" => \A m \in Metrics : future[m] \in {"returned", "raised"})
  /\ [][\A m \in Metrics : future'[m] # future[m] => <<future[m], future'[m]>> \in Stages]_vars

\* The pool is full while work is still queued.
C19_Witness ==
  /\ max_workers < 8
  /\ Cardinality(Running) = max_workers
  /\ \E m \in Metrics : future[m] = "pending"

\* The sizes of the file list and of the API response's file list, in KiB.
ListedSize(files) ==
  SumOver({k \in 1..Len(files) : files[k].dict}, [k \in 1..Len(files) |-> files[k].size])

\* The total a descriptor's file lists give, 0 when they give none.
ManifestTotal(d) ==
  IF ListedSize(d.siblings) > 0 THEN ListedSize(d.siblings)
  ELSE ListedSize(d.api_data.siblings)

\* The sizes the table gives for the substrings found in the name.
PatternSizes(d) ==
  {SIZE_PATTERNS[k][2] : k \in {j \in 1..Len(SIZE_PATTERNS) :
                                  Contains(Lower(d.name), SIZE_PATTERNS[j][1])}}

\* The known architectures: sentence-transformers, BERT, GPT-2 but not its
\* xl variant, Whisper.
KnownArchitecture(d) ==
  \/ Contains(Lower(d.library_name), "sentence-transformer")
  \/ \E word \in {"sentence-transformer", "bert", "whisper"} : Contains(Lower(d.name), word)
  \/ Contains(Lower(d.name), "gpt2") /\ ~Contains(Lower(d.name), "xl")

ArchitectureSizes == {150 * MiB, 500 * MiB, 600 * MiB, 1536 * MiB, 3 * GiB}

\* C20: _estimate_size returns the file lists' total when that is above 0;
\* else a size of the name-pattern table when the name holds a pattern; else
\* an architecture's size when the library or the name tells one; else 500
\* MiB, 1 GiB or 2 GiB by the downloads, 2 GiB at 10000 downloads and below;
\* and no descriptor with more downloads, otherwise alike, gets a larger size.
C20_OrderedFallback ==
  ret # None =>
    LET size == ret[1]
        byFiles == ManifestTotal(args) > 0
        byName == ~byFiles /\ PatternSizes(args) # {}
        byArchitecture == ~byFiles /\ ~byName /\ KnownArchitecture(args)
        byDownloads == ~byFiles /\ ~byName /\ ~byArchitecture
    IN  /\ byFiles => size = ManifestTotal(args)
        /\ byName => size \in PatternSizes(args)
        /\ byArchitecture => size \in ArchitectureSizes
        /\ byDownloads => /\ size \in {500 * MiB, 1 * GiB, 2 * GiB}
                          /\ args.downloads <= 10000 => size = 2 * GiB
                          /\ size < 2 * GiB => args.downloads > 100000
        /\ \A downloads \in SizeDownloads :
             downloads >= args.downloads =>
               _estimate_size([args EXCEPT !.downloads = downloads]) <= size

\* The downloads decide, and a popular model is taken to be small.
C20_Witness ==
  /\ ret = Some(500 * MiB)
  /\ ManifestTotal(args) = 0
  /\ PatternSizes(args) = {}
  /\ ~KnownArchitecture(args)
  /\ args.downloads > 1000000

\* The tiers of the name table, in KiB.
NameTiers ==
  {<<"7b", 13 * GiB>>, <<"13b", 26 * GiB>>, <<"tiny", 100 * MiB>>, <<"small", 500 * MiB>>,
   <<"base", 500 * MiB>>, <<"medium", 1536 * MiB>>, <<"large", 3 * GiB>>, <<"xl", 6 * GiB>>,
   <<"xxl", 12 * GiB>>}

\* The substrings of the table that a name holds.
PatternsIn(d) ==
  {SIZE_PATTERNS[k][1] : k \in {j \in 1..Len(SIZE_PATTERNS) :
                                  Contains(Lower(d.name), SIZE_PATTERNS[j][1])}}

\* C21: without a size from the file lists, a name that holds a substring of
\* the table, and no other than those inside it, is estimated at that
\* substring's tier: 13 GiB for "7b", 26 GiB for "13b", 100 MiB for "tiny",
\* 500 MiB for "small" and "base", 1.5 GiB for "medium", 3 GiB for "large",
\* 6 GiB for "xl" and 12 GiB for "xxl".
C21_NameTier ==
  (ret # None /\ ManifestTotal(args) = 0) =>
    \A tier \in NameTiers :
      (tier[1] \in PatternsIn(args) /\ \A p \in PatternsIn(args) : Contains(tier[1], p))
        => ret[1] = tier[2]

\* The four scores a size estimate gets, one per hardware tier.
TierScores(size_bytes) ==
  [hw \in Tiers |-> _calculate_hardware_score(size_bytes, HARDWARE_LIMITS[hw])]

\* C22: the value of the size sub-scorer is the unweighted mean of its four
\* hardware scores, and when it did not raise the rating's size_score is
\* those four scores, under the four tier names and unchanged.
C22_MeanOfTiersAndTiersKept ==
  metric_funcs # <<>> =>
    LET result == metric_funcs["size_score"]
        scores == TierScores(_estimate_size(model_info))
    IN  /\ 4 * result.value = SumOver(Tiers, scores)
        /\ (output # None /\ future["size_score"] = "returned") =>
             /\ DOMAIN output[1]["size_score"] = Tiers
             /\ \A hw \in Tiers : output[1]["size_score"][hw] = scores[hw]

\* A rating with the size scores of a model that fits some tiers and not
\* others.
C22_Witness ==
  /\ output # None
  /\ future["size_score"] = "returned"
  /\ output[1]["size_score"]["raspberry_pi"] < output[1]["size_score"]["jetson_nano"]
  /\ output[1]["size_score"]["jetson_nano"] < output[1]["size_score"]["aws_server"]

\* C24: when the size sub-scorer raised, the rating still has a size_score
\* with the four tier names, each at 0.5, and a size_score_latency of 0.
C24_FaultedSizeKeepsTiers ==
  (output # None /\ future["size_score"] = "raised") =>
    /\ DOMAIN output[1]["size_score"] = Tiers
    /\ \A hw \in Tiers : output[1]["size_score"][hw] = Half
    /\ output[1]["size_score_latency"] = 0

\* The size sub-scorer raised in a call whose other sub-scorers returned and
\* measured a latency.
C24_Witness ==
  /\ output # None
  /\ Raised = {"size_score"}
  /\ latency_ms > 0
  /\ output[1]["license_latency"] > 0

\* The table keys and what the table gives for one.
LicenseKeys == {LICENSE_SCORES[k][1] : k \in 1..Len(LICENSE_SCORES)}

TableScore(key) == LICENSE_SCORES[CHOOSE k \in 1..Len(LICENSE_SCORES) : LICENSE_SCORES[k][1] = key][2]

\* The table keys that a license holds as a substring.
KeysIn(license) == {key \in LicenseKeys : Contains(license, key)}

\* C23: _score_license gives a table key its table score; a license that is
\* no key but holds one as a substring the score of such a key; and 0.3 to
\* every other license that is not empty.
C23_TableThenSubstringThenDefault ==
  Len(ret) = 2 =>
    LET normalized == ret[1]
        score == ret[2]
    IN  /\ normalized \in LicenseKeys => score = TableScore(normalized)
        /\ (normalized \notin LicenseKeys /\ KeysIn(normalized) # {}) =>
             score \in {TableScore(key) : key \in KeysIn(normalized)}
        /\ (normalized # "" /\ normalized \notin LicenseKeys /\ KeysIn(normalized) = {}) =>
             score = D4(3000)

\* C29: check_license_compatibility gives the same answer for a pair of
\* licenses in either order, and true for a license paired with itself.
C29_SymmetricAndReflexive ==
  ret # None =>
    /\ ret[1] = check_license_compatibility(args[2], args[1])
    /\ args[1] = args[2] => ret[1]

\* A restrictive license was checked against a permissive one.
C29_Witness ==
  /\ ret = Some(TRUE)
  /\ _normalize_license(args[1]) \notin permissive
  /\ _normalize_license(args[2]) \in permissive
  /\ _score_license(_normalize_license(args[1])) < D4(7000)

\* The sizes the hardware score is taken of.
HardwareSizes == UNION {SizesAround(limit_bytes) : limit_bytes \in Limits}

\* C30: the four tier scores of a size estimate rise with the memory ceiling,
\* raspberry_pi <= jetson_nano <= desktop_pc <= aws_server, a larger limit
\* never giving the same size a lower score; and for one limit a larger size
\* never gets a higher score.
C30_OrderedByCeilingAndSize ==
  ret # None =>
    LET size_bytes == args[1]
        limit_bytes == args[2]
        tiers == TierScores(size_bytes)
    IN  /\ tiers["raspberry_pi"] <= tiers["jetson_nano"]
        /\ tiers["jetson_nano"] <= tiers["desktop_pc"]
        /\ tiers["desktop_pc"] <= tiers["aws_server"]
        /\ \A larger \in Limits :
             larger >= limit_bytes => _calculate_hardware_score(size_bytes, larger) >= ret[1]
        /\ \A larger \in HardwareSizes :
             larger >= size_bytes => _calculate_hardware_score(larger, limit_bytes) <= ret[1]

\* A size was scored that a larger tier scores higher and that scores higher
\* than a larger size on the same tier.
C30_Witness ==
  /\ ret # None
  /\ args[1] > 0
  /\ args[2] = HARDWARE_LIMITS.jetson_nano
  /\ ret[1] < _calculate_hardware_score(args[1], HARDWARE_LIMITS.desktop_pc)
  /\ ret[1] > _calculate_hardware_score(2 * args[2], args[2])
  /\ ret[1] = D4(7000)

\* The last request was an ingest_model of the API whose metrics came from
\* calculate_all_metrics.
IngestedByCalculator ==
  /\ response # None
  /\ output # None
  /\ metrics = Some(AsDict(output[1]))
  /\ passes # None /\ passes[1].gate = "check_ingest_threshold"

\* The table holds the artifact and a rating of it.
Persisted(artifact_id) ==
  /\ GetArtifact(store, artifact_id) # None
  /\ get_latest_rating(store, artifact_id) # None

\* C25: when all eight sub-scorers raised, every score of the rating is 0.5,
\* the gate at the default threshold 0.5 lets it through, and ingest_model
\* answers 201 and the artifact and its rating are in the table.
C25_AllFaultedIsAccepted ==
  (IngestedByCalculator /\ Raised = Metrics) =>
    /\ \A key \in DOMAIN NonLatency(output[1]) \ {"name", "category", "size_score"} :
         output[1][key] = Half
    /\ \A hw \in Tiers : output[1]["size_score"][hw] = Half
    /\ passes[1].result = "True"
    /\ response[1].status = 201
    /\ response[1].accepted = Some(TRUE)
    /\ Persisted(response[1].id[1])

\* A model all of whose sub-scorers raised was ingested.
C25_Witness ==
  /\ IngestedByCalculator
  /\ Raised = Metrics
  /\ response[1].status = 201
  /\ DOMAIN store # {}

\* The scores of a stored rating or of a response, without the texts.
Numbers(dict) == [key \in DOMAIN dict \ {"name", "category"} |-> dict[key]]

\* C27: after ingest_model answered 201, the table holds the METADATA record
\* of the returned id and a RATING record of it, and the latest RATING record
\* has the scores of the response, every one of them at least the threshold.
C27_AcceptedIsStoredAsReturned ==
  (response # None /\ response[1].status = 201
     /\ passes # None /\ passes[1].gate = "check_ingest_threshold") =>
    LET artifact_id == response[1].id[1]
        score == response[1].score[1]
    IN  /\ GetArtifact(store, artifact_id) # None
        /\ get_latest_rating(store, artifact_id) # None
        /\ Numbers(get_latest_rating(store, artifact_id)[1]) = Numbers(score)
        /\ AllAtLeast(score, ingest_threshold)

\* A model was ingested under the id of an earlier one, with other scores.
C27_Witness ==
  /\ response # None /\ response[1].status = 201
  /\ passes # None /\ passes[1].gate = "check_ingest_threshold"
  /\ \E k \in DOMAIN store :
       /\ k[1].id = response[1].id[1]
       /\ k[2].sk = "RATING"
       /\ Numbers(store[k]) # Numbers(response[1].score[1])

\* The last request was a rate_model that answered 200 for this artifact.
Rated(artifact_id) ==
  /\ response # None
  /\ response[1].op = "rate_model"
  /\ response[1].id = artifact_id
  /\ response[1].status = 200

NoneInProgress == \A w \in Workers : args[w].at \in {"idle", "done"}

=============================================================================
